---- MODULE Spec2Model ----
(***************************************************************************)
(* A model of xray_generator.py: the merge / consolidation / checkpoint    *)
(* engine that builds an X-Ray knowledge base chunk by chunk.              *)
(*                                                                         *)
(* Strings are sequences of tokens.  In a name every token is one          *)
(* character; in a description or a summary a token is a run of characters *)
(* whose length TokLen gives.  The empty string is << >>.                  *)
(***************************************************************************)
EXTENDS Integers, Sequences, FiniteSets, TLC

VARIABLES
    chunks,      \* build_chunks' result: the chunks' cumulative end offsets
    total_len,   \* process_book.total_len
    out,         \* what the analysis service answers for each chunk's prompt
    distill,     \* how the service answers a consolidation prompt
    files,       \* the output directory: percentage -> artifact
    pc,          \* the orchestrating thread's position in process_book
    run,         \* how many times process_book has been started
    idx,         \* process_book's loop variable over chunk_tasks
    start_step,  \* _calculate_start_step's result
    master,      \* the MasterData instance
    futures,     \* state of every submitted _process_chunk_worker
    pending,     \* consolidation futures not yet applied
    resume_data, \* find_resume_checkpoint's resume_data (<< >> for None)
    mergeLog,    \* history: chunk indices merged in this run, in order
    eventLog,    \* history: merge / consolidate / checkpoint steps of this run
    ckptLog,     \* history: checkpoints written in this run
    fatalSeen,   \* history: chunks whose call got a fatal content response
    faults,      \* environment faults so far: failed checkpoint writes and
                 \* fatal content responses
    call,        \* one call_ai_with_retry invocation (specification SpecRetry)
    fn           \* one call of a function studied on its own: its arguments
                 \* and, once it has returned, its result

runVars == <<chunks, total_len, out, distill, files, pc, run, idx, start_step,
             master, futures, pending, resume_data, mergeLog, eventLog,
             ckptLog, fatalSeen, faults>>
vars == <<chunks, total_len, out, distill, files, pc, run, idx, start_step,
          master, futures, pending, resume_data, mergeLog, eventLog,
          ckptLog, fatalSeen, faults, call, fn>>

(***************************************************************************)
(* Bounds of the model.                                                    *)
(***************************************************************************)
MaxChunks == 2
MaxLen == 3
MaxRuns == 2
MaxAttempt == 4
MaxFaults == 1

(***************************************************************************)
(* Program constants.                                                      *)
(***************************************************************************)
MAX_RETRIES == 2
MAX_WORKERS == 5
MAX_THEMES == 8
SUMMARY_CEILING == 1500

\* The denylist of meta-narrative themes (transliterated).
META_THEMES ==
    {"wenbenguodu", "duochongshijiao", "xushijiegou", "wenbenjiegou",
     "shijiaozhuanhuan", "zhangjiehuafen", "jiegoutezheng", "xushishijiao",
     "wenbentedian", "xingwenfengge", "xiezuoshoufa", "xushufangshi"}

\* Honorific / relational prefixes and suffixes, one token per character.
NAME_PREFIXES ==
    << <<"hou", "ma">>, <<"ji", "mu">>, <<"sheng", "mu">>, <<"qin", "ma">>,
       <<"wai", "po">>, <<"nai", "nai">>, <<"ye", "ye">>, <<"wai", "gong">>,
       <<"lao">>, <<"xiao">>, <<"da">> >>

NAME_SUFFIXES ==
    << <<"xian", "sheng">>, <<"tai", "tai">>, <<"xiao", "jie">>,
       <<"nv", "shi">>, <<"fu", "ren">>, <<"ge", "xia">>, <<"lv", "shi">>,
       <<"yi", "sheng">>, <<"jiao", "shou">>, <<"lao", "shi">>,
       <<"bo", "shi">>, <<"shen", "fu">>, <<"mu", "shi">>, <<"ba", "ba">>,
       <<"ma", "ma">>, <<"fu", "qin">>, <<"mu", "qin">>, <<"jiu", "jiu">>,
       <<"yi", "fu">>, <<"yi", "ma">>, <<"shu", "shu">>, <<"a", "yi">>,
       <<"gu", "gu">>, <<"gu", "fu">>, <<"bo", "fu">>, <<"bo", "mu">>,
       <<"ge", "ge">>, <<"di", "di">>, <<"jie", "jie">>, <<"mei", "mei">>,
       <<"biao", "ge">>, <<"biao", "di">>, <<"biao", "jie">>,
       <<"biao", "mei">>, <<"tang", "ge">>, <<"tang", "di">>,
       <<"tang", "jie">>, <<"tang", "mei">> >>

(***************************************************************************)
(* Strings.                                                                *)
(***************************************************************************)
IsSpace(c) == c \in {" ", "\n"}

\* How many characters a token stands for.
TokLen(c) ==
    CASE c = "a300" -> 300
      [] c = "b200" -> 200
      [] c = "S1600" -> 1600
      [] OTHER -> 1

RECURSIVE StrLen(_)
StrLen(s) == IF s = << >> THEN 0 ELSE TokLen(Head(s)) + StrLen(Tail(s))

RECURSIVE LStrip(_)
LStrip(s) ==
    IF s # << >> /\ IsSpace(Head(s)) THEN LStrip(Tail(s)) ELSE s

RECURSIVE RStrip(_)
RStrip(s) ==
    IF s # << >> /\ IsSpace(s[Len(s)])
    THEN RStrip(SubSeq(s, 1, Len(s) - 1))
    ELSE s

Strip(s) == RStrip(LStrip(s))

StartsWith(s, p) == Len(p) <= Len(s) /\ SubSeq(s, 1, Len(p)) = p

EndsWith(s, p) ==
    Len(p) <= Len(s) /\ SubSeq(s, Len(s) - Len(p) + 1, Len(s)) = p

\* " ".join(parts)
RECURSIVE Join(_)
Join(parts) ==
    IF parts = << >> THEN << >>
    ELSE IF Len(parts) = 1 THEN parts[1]
    ELSE parts[1] \o <<" ">> \o Join(Tail(parts))

\* opencc's t2s conversion, character by character: a traditional form is
\* folded to its simplified form, every other character is kept.
T2SChar(c) ==
    CASE c = "longT" -> "long"
      [] c = "maT" -> "ma"
      [] OTHER -> c

T2S(s) == [k \in 1..Len(s) |-> T2SChar(s[k])]

(***************************************************************************)
(* Name normalisation.                                                     *)
(***************************************************************************)
IsOpenParen(c) == c \in {"(", "fw("}
IsCloseParen(c) == c \in {")", "fw)"}

\* Index of the first closing parenthesis at or after k (0 when none), provided
\* no closing parenthesis occurs before it: the regex group [^close]*close.
RECURSIVE FindClose(_, _)
FindClose(s, k) ==
    IF k > Len(s) THEN 0
    ELSE IF IsCloseParen(s[k]) THEN k
    ELSE FindClose(s, k + 1)

\* re.sub(r"[open][^close]*[close]", "", name): leftmost matches, left to right.
RECURSIVE RemoveParens(_)
RemoveParens(s) ==
    IF s = << >> THEN << >>
    ELSE IF IsOpenParen(Head(s)) /\ FindClose(s, 2) # 0
    THEN RemoveParens(SubSeq(s, FindClose(s, 2) + 1, Len(s)))
    ELSE <<Head(s)>> \o RemoveParens(Tail(s))

\* The first loop: the first prefix (in tuple order) that can be stripped
\* leaving a non-empty name is stripped, and the loop breaks.
RECURSIVE StripPrefix(_, _)
StripPrefix(name, k) ==
    IF k > Len(NAME_PREFIXES) THEN name
    ELSE LET prefix == NAME_PREFIXES[k]
             test_name == Strip(SubSeq(name, Len(prefix) + 1, Len(name)))
         IN  IF StartsWith(name, prefix) /\ Len(name) > Len(prefix)
                /\ test_name # << >>
             THEN test_name
             ELSE StripPrefix(name, k + 1)

\* The second loop: the same for suffixes, unless it leaves a possessive.
RECURSIVE StripSuffix(_, _)
StripSuffix(name, k) ==
    IF k > Len(NAME_SUFFIXES) THEN name
    ELSE LET suffix == NAME_SUFFIXES[k]
             test_name == Strip(SubSeq(name, 1, Len(name) - Len(suffix)))
         IN  IF EndsWith(name, suffix) /\ Len(name) > Len(suffix)
                /\ test_name # << >> /\ ~EndsWith(test_name, <<"de">>)
             THEN test_name
             ELSE StripSuffix(name, k + 1)

normalize_character_name(name) ==
    IF name = << >> THEN name
    ELSE LET stripped == Strip(RemoveParens(name))
             potential_name == StripSuffix(StripPrefix(stripped, 1), 1)
         IN  IF potential_name # << >> THEN potential_name ELSE name

normalize_for_dedup(name) ==
    IF name = << >> THEN name ELSE Strip(T2S(name))

HyphenChar(c) == IF c \in {"fw-", "em-", "en-"} THEN "-" ELSE c

normalize_location_name(name) ==
    IF name = << >> THEN name
    ELSE Strip(T2S([k \in 1..Len(name) |-> HyphenChar(name[k])]))

(***************************************************************************)
(* MasterData.  A dict is a sequence of entries in insertion order; an     *)
(* entity's "consolidated" is << >> for None and <<text>> for a string.    *)
(***************************************************************************)
BookTitle == <<"T">>
Author == <<"A">>

NewMasterData(book_title, author) ==
    [book_title |-> book_title, author |-> author, author_bio |-> << >>,
     characters |-> << >>, locations |-> << >>, themes |-> {},
     summary_parts |-> << >>]

\* Position of key in a dict (0 when absent).
RECURSIVE KeyIndexFrom(_, _, _)
KeyIndexFrom(d, key, k) ==
    IF k > Len(d) THEN 0
    ELSE IF d[k].key = key THEN k
    ELSE KeyIndexFrom(d, key, k + 1)

KeyIndex(d, key) == KeyIndexFrom(d, key, 1)

Keys(d) == {d[k].key : k \in 1..Len(d)}

\* Python truthiness of an Optional[str].
Truthy(opt) == opt # << >> /\ opt[1] # << >>

\* The body of both merge loops once the dedup key is known: create the
\* entity if new, reopen a consolidated description, append the fragment.
\* A reopening that leaves the consolidated description in place.
ReopenKeepingConsolidated(e) ==
    IF Truthy(e.consolidated)
    THEN [e EXCEPT !.descriptions = <<e.consolidated[1]>> \o @]
    ELSE e

Reopen(e) ==
    IF Truthy(e.consolidated)
    THEN [e EXCEPT !.descriptions = <<e.consolidated[1]>> \o @,
                   !.consolidated = << >>]
    ELSE e

AppendDesc(e, desc) ==
    IF desc # << >>
    THEN [e EXCEPT !.descriptions = Append(@, T2S(desc))]
    ELSE e

MergeEntity(d, key, desc) ==
    LET d1 == IF KeyIndex(d, key) = 0
              THEN Append(d, [key |-> key, display_name |-> key,
                              descriptions |-> << >>, consolidated |-> << >>])
              ELSE d
        k == KeyIndex(d1, key)
    IN  [d1 EXCEPT ![k] = AppendDesc(Reopen(d1[k]), desc)]

\* The dedup key _merge_characters files a raw name under (<< >> when the
\* mention is skipped).
DedupKey(raw) ==
    LET raw_name == Strip(raw)
        name == normalize_character_name(raw_name)
    IN  IF raw_name = << >> \/ name = << >> THEN << >>
        ELSE normalize_for_dedup(name)

RECURSIVE _merge_characters(_, _)
_merge_characters(d, characters) ==
    IF characters = << >> THEN d
    ELSE LET char == Head(characters)
             raw_name == Strip(char.name)
             name == normalize_character_name(raw_name)
             desc == Strip(char.description)
         IN  IF raw_name = << >> \/ name = << >>
             THEN _merge_characters(d, Tail(characters))
             ELSE _merge_characters(
                      MergeEntity(d, normalize_for_dedup(name), desc),
                      Tail(characters))

RECURSIVE _merge_locations(_, _)
_merge_locations(d, locations) ==
    IF locations = << >> THEN d
    ELSE LET loc == Head(locations)
             name == Strip(loc.name)
             desc == Strip(loc.description)
         IN  IF name = << >>
             THEN _merge_locations(d, Tail(locations))
             ELSE _merge_locations(
                      MergeEntity(d, normalize_location_name(name), desc),
                      Tail(locations))

SeqRange(s) == {s[k] : k \in 1..Len(s)}

\* A merge that keeps only the newest chunk's themes.
MergeThemesReplacing(themes, new) ==
    {t \in SeqRange(new) : t # "" /\ t \notin META_THEMES}

_merge_themes(themes, new) ==
    themes \cup {t \in SeqRange(new) : t # "" /\ t \notin META_THEMES}

_merge_summary(parts, summary) ==
    IF Strip(summary) # << >> THEN Append(parts, Strip(summary)) ELSE parts

_merge_metadata(m, chunk_data) ==
    [m EXCEPT
       !.book_title = IF chunk_data.book_title # << >>
                      THEN chunk_data.book_title ELSE @,
       !.author = IF chunk_data.author # << >> THEN chunk_data.author ELSE @,
       !.author_bio = IF chunk_data.author_bio # << >>
                      THEN chunk_data.author_bio ELSE @]

merge_chunk(m, chunk_data) ==
    _merge_metadata(
        [m EXCEPT
           !.characters = _merge_characters(@, chunk_data.characters),
           !.locations = _merge_locations(@, chunk_data.locations),
           !.themes = _merge_themes(@, chunk_data.themes),
           !.summary_parts = _merge_summary(@, chunk_data.summary)],
        chunk_data)

\* A selection that already takes an entity with a single fragment.
RECURSIVE NeedingHelpFromOne(_)
NeedingHelpFromOne(d) ==
    IF d = << >> THEN << >>
    ELSE LET val == Head(d)
         IN  (IF val.consolidated = << >> /\ Len(val.descriptions) >= 1
              THEN << [name |-> val.key, desc |-> Join(val.descriptions)] >>
              ELSE << >>) \o NeedingHelpFromOne(Tail(d))

\* One list of get_items_needing_consolidation: (key, combined) pairs.
RECURSIVE NeedingHelp(_)
NeedingHelp(d) ==
    IF d = << >> THEN << >>
    ELSE LET val == Head(d)
         IN  (IF val.consolidated = << >> /\ Len(val.descriptions) > 1
              THEN << [name |-> val.key, desc |-> Join(val.descriptions)] >>
              ELSE << >>) \o NeedingHelp(Tail(d))

get_items_needing_consolidation(m) ==
    [e \in 1..Len(NeedingHelp(m.characters)) |->
        [etype |-> "character", name |-> NeedingHelp(m.characters)[e].name,
         desc |-> NeedingHelp(m.characters)[e].desc]]
    \o
    [e \in 1..Len(NeedingHelp(m.locations)) |->
        [etype |-> "location", name |-> NeedingHelp(m.locations)[e].name,
         desc |-> NeedingHelp(m.locations)[e].desc]]

\* A trigger that passes over a single long fragment.
NeedsSummaryOnlyWhenSeveral(m) == Len(m.summary_parts) > 1

needs_summary_consolidation(m) ==
    \/ Len(m.summary_parts) > 1
    \/ /\ Len(m.summary_parts) = 1
       /\ StrLen(m.summary_parts[1]) > SUMMARY_CEILING

\* An application that gives the result to the first entity that still
\* waits for one, whatever entity the result is for.
ApplyToNextWaiting(d, name, consolidated_desc) ==
    LET waiting == {k \in 1..Len(d) : /\ d[k].consolidated = << >>
                                      /\ Len(d[k].descriptions) > 1}
        first == CHOOSE k \in waiting : \A j \in waiting : k <= j
    IN  IF waiting = {} THEN d
        ELSE [d EXCEPT ![first] =
                 [@ EXCEPT !.consolidated = <<consolidated_desc>>,
                           !.descriptions = << >>]]

\* An application that leaves the fragments in place.
ApplyToKeepingFragments(d, name, consolidated_desc) ==
    IF KeyIndex(d, name) = 0 THEN d
    ELSE [d EXCEPT ![KeyIndex(d, name)] =
             [@ EXCEPT !.consolidated = <<consolidated_desc>>]]

ApplyTo(d, name, consolidated_desc) ==
    IF KeyIndex(d, name) = 0 THEN d
    ELSE [d EXCEPT ![KeyIndex(d, name)] =
             [@ EXCEPT !.consolidated = <<consolidated_desc>>,
                       !.descriptions = << >>]]

apply_consolidation(m, entity_type, name, consolidated_desc) ==
    IF entity_type = "character"
    THEN [m EXCEPT !.characters = ApplyTo(@, name, consolidated_desc)]
    ELSE [m EXCEPT !.locations = ApplyTo(@, name, consolidated_desc)]

(***************************************************************************)
(* The analysis service's answer to a consolidation prompt.  kind is how   *)
(* the service behaves: it distils the text to its head, it answers        *)
(* without the requested field (the caller then keeps the combined text),  *)
(* or it answers with an empty field.                                      *)
(***************************************************************************)
DistillKinds == {"head", "echo", "empty"}

Distilled(kind, combined) ==
    CASE kind = "head" ->
             IF combined = << >> THEN << >> ELSE <<Head(combined)>>
      [] kind = "echo" -> combined
      [] OTHER -> << >>

consolidate_description_with_ai(kind, entity_type, name, combined_desc) ==
    Distilled(kind, combined_desc)

consolidate_summary(m, kind) ==
    IF m.summary_parts = << >> THEN m
    ELSE [m EXCEPT !.summary_parts = <<Distilled(kind, Join(@))>>]

(***************************************************************************)
(* Checkpoint artifacts.                                                   *)
(***************************************************************************)
EntityDesc(data) ==
    IF Truthy(data.consolidated) THEN data.consolidated[1]
    ELSE Join(data.descriptions)

score_importance(data) ==
    StrLen(EntityDesc(data)) + Len(data.descriptions) * 50

\* list.sort(key=_score, reverse=True): stable, highest score first.
RECURSIVE InsertByScore(_, _)
InsertByScore(sorted, item) ==
    IF sorted = << >> THEN <<item>>
    ELSE IF Head(sorted).score >= item.score
    THEN <<Head(sorted)>> \o InsertByScore(Tail(sorted), item)
    ELSE <<item>> \o sorted

RECURSIVE SortByScore(_)
SortByScore(items) ==
    IF items = << >> THEN << >>
    ELSE InsertByScore(SortByScore(SubSeq(items, 1, Len(items) - 1)),
                       items[Len(items)])

OutputItems(d) ==
    LET items == [k \in 1..Len(d) |->
                    [name |-> d[k].display_name,
                     description |-> EntityDesc(d[k]),
                     score |-> score_importance(d[k])]]
        sorted == SortByScore(items)
    IN  [k \in 1..Len(sorted) |->
            [name |-> sorted[k].name, description |-> sorted[k].description]]

\* An artifact that lists every theme that is left after the filter.
ThemeSlicesUncut(themes) == {themes \ META_THEMES}

\* filtered_themes[:8]: a set has no order, so any MAX_THEMES of them.
ThemeSlices(themes) ==
    LET filtered == themes \ META_THEMES
    IN  IF Cardinality(filtered) <= MAX_THEMES THEN {filtered}
        ELSE {t \in SUBSET filtered : Cardinality(t) = MAX_THEMES}

to_output_json(m, progress_pct, theme_slice) ==
    [book_title |-> m.book_title, author |-> m.author,
     author_bio |-> m.author_bio, summary |-> Join(m.summary_parts),
     characters |-> OutputItems(m.characters),
     locations |-> OutputItems(m.locations),
     themes |-> theme_slice, analysis_progress |-> progress_pct]

\* A file that was opened for writing and not (yet) written: it does not
\* parse as JSON.
Partial == [complete |-> FALSE, data |-> << >>]
Complete(data) == [complete |-> TRUE, data |-> <<data>>]

PutFile(fs, pct, file) ==
    [p \in DOMAIN fs \cup {pct} |-> IF p = pct THEN file ELSE fs[p]]

SetMax(S) == CHOOSE x \in S : \A y \in S : y <= x
SetMin(S) == CHOOSE x \in S : \A y \in S : x <= y

\* A lookup that falls back to the highest checkpoint that parses.
FindResumePctFallingBack(fs) ==
    LET pcts == {p \in DOMAIN fs : p > 0 /\ fs[p].complete}
    IN  IF pcts = {} THEN 0 ELSE SetMax(pcts)

\* find_resume_checkpoint: the highest percentage in the directory, and
\* its content unless it cannot be parsed.
find_resume_pct(fs) ==
    LET pcts == {p \in DOMAIN fs : p > 0}
    IN  IF pcts = {} THEN 0
        ELSE IF fs[SetMax(pcts)].complete THEN SetMax(pcts) ELSE 0

find_resume_data(fs) ==
    IF find_resume_pct(fs) = 0 THEN << >>
    ELSE fs[find_resume_pct(fs)].data

\* dict assignment: an existing key keeps its position.
SetEntity(d, key, entity) ==
    IF KeyIndex(d, key) = 0 THEN Append(d, entity)
    ELSE [d EXCEPT ![KeyIndex(d, key)] = entity]

\* A restore that reads the display name from the wrong field.
RECURSIVE RestoreEntitiesNamedByDescription(_, _, _)
RestoreEntitiesNamedByDescription(d, items, is_char) ==
    IF items = << >> THEN d
    ELSE LET name == Strip(Head(items).name)
             dedup_key == IF is_char THEN normalize_for_dedup(name)
                          ELSE normalize_location_name(name)
         IN  IF name = << >>
             THEN RestoreEntitiesNamedByDescription(d, Tail(items), is_char)
             ELSE RestoreEntitiesNamedByDescription(
                      SetEntity(d, dedup_key,
                          [key |-> dedup_key,
                           display_name |-> Head(items).description,
                           descriptions |-> <<Head(items).description>>,
                           consolidated |-> <<Head(items).description>>]),
                      Tail(items), is_char)

\* A restore that keeps the stored description as the consolidated value
\* only, with no fragment.
RECURSIVE RestoreEntitiesAsFinal(_, _, _)
RestoreEntitiesAsFinal(d, items, is_char) ==
    IF items = << >> THEN d
    ELSE LET name == Strip(Head(items).name)
             dedup_key == IF is_char THEN normalize_for_dedup(name)
                          ELSE normalize_location_name(name)
         IN  IF name = << >> THEN RestoreEntitiesAsFinal(d, Tail(items), is_char)
             ELSE RestoreEntitiesAsFinal(
                      SetEntity(d, dedup_key,
                          [key |-> dedup_key, display_name |-> name,
                           descriptions |-> << >>,
                           consolidated |-> <<Head(items).description>>]),
                      Tail(items), is_char)

RECURSIVE RestoreEntities(_, _, _)
RestoreEntities(d, items, is_char) ==
    IF items = << >> THEN d
    ELSE LET name == Strip(Head(items).name)
             dedup_key == IF is_char THEN normalize_for_dedup(name)
                          ELSE normalize_location_name(name)
         IN  IF name = << >> THEN RestoreEntities(d, Tail(items), is_char)
             ELSE RestoreEntities(
                      SetEntity(d, dedup_key,
                          [key |-> dedup_key, display_name |-> name,
                           descriptions |-> <<Head(items).description>>,
                           consolidated |-> <<Head(items).description>>]),
                      Tail(items), is_char)

restore_master_from_checkpoint(m, data) ==
    [m EXCEPT
       !.characters = RestoreEntities(@, data.characters, TRUE),
       !.locations = RestoreEntities(@, data.locations, FALSE),
       !.themes = @ \cup {t \in data.themes : t # "" /\ t \notin META_THEMES},
       !.summary_parts = IF data.summary # << >>
                         THEN Append(@, data.summary) ELSE @,
       !.book_title = data.book_title,
       !.author = data.author,
       !.author_bio = data.author_bio]

(***************************************************************************)
(* Percentages and the resume point.                                       *)
(***************************************************************************)
TotalChunks == Len(chunks)

\* The end percentage rounded down instead of up.
EndPctFloor(i) == (chunks[i] * 100) \div total_len

\* math.ceil(end_pos * 100 / total_len)
EndPct(i) == (chunks[i] * 100 + total_len - 1) \div total_len

\* math.floor(prev_end_pos * 100 / total_len)
StartPct(i) == IF i > 1 THEN (chunks[i - 1] * 100) \div total_len ELSE 0

\* int((end_pos / total_len) * 100)
ChunkPct(i) == (chunks[i] * 100) \div total_len

\* A resume that starts again at the checkpointed chunk.
RECURSIVE StartStepFromSameChunk(_, _)
StartStepFromSameChunk(resume_pct, i) ==
    IF i > TotalChunks THEN TotalChunks + 1
    ELSE IF ChunkPct(i) >= resume_pct THEN i
    ELSE StartStepFromSameChunk(resume_pct, i + 1)

\* The for / else loop of _calculate_start_step.
RECURSIVE StartStepFrom(_, _)
StartStepFrom(resume_pct, i) ==
    IF i > TotalChunks THEN TotalChunks + 1
    ELSE IF ChunkPct(i) >= resume_pct THEN i + 1
    ELSE StartStepFrom(resume_pct, i + 1)

\* _calculate_start_step; TotalChunks + 1 and more stands for None.
_calculate_start_step(resume_pct, data) ==
    IF resume_pct > 0 /\ data # << >>
    THEN StartStepFrom(resume_pct, 1)
    ELSE 1

(***************************************************************************)
(* One attempt of call_ai_with_retry and what its callers do with the      *)
(* response.  A response is an exception, or a completion with a content   *)
(* and a finish_reason.                                                    *)
(***************************************************************************)
Responses ==
    [exc : {"timeout", "license"}, content : {"none"}, finish_reason : {"stop"}]
    \cup
    [exc : {"none"}, content : {"none", "invalid", "object", "nonobject"},
     finish_reason : {"stop", "length"}]

\* One iteration of the while loop: "exit" is os._exit(1), "retry" is the
\* except branch that sleeps and loops, "return" returns the response.
AttemptOutcome(resp) ==
    CASE resp.exc = "license" -> "exit"
      [] resp.exc = "timeout" -> "retry"
      [] resp.content = "none" -> "retry"
      [] resp.content = "invalid" -> "retry"
      [] OTHER -> "return"

\* _process_chunk_worker after call_ai_with_retry has returned.
WorkerOutcome(resp) ==
    CASE resp.finish_reason = "length" -> "exit"
      [] resp.content = "none" -> "exit"
      [] resp.content = "invalid" -> "exit"
      [] resp.content = "nonobject" -> "exit"
      [] OTHER -> "data"

\* An empty or refused response, or one truncated at the token budget.
IsFatalContent(resp) ==
    resp.exc = "none" /\ (resp.content = "none" \/ resp.finish_reason = "length")

IsMalformed(resp) == resp.exc = "none" /\ resp.content = "invalid"

IsTransient(resp) == resp.exc = "timeout"

(***************************************************************************)
(* Inputs.                                                                 *)
(***************************************************************************)
\* Chunk end offsets as build_chunks returns them: strictly increasing.
\* With no more chunks than pool threads every task starts at once.
IsLayout(s) ==
    /\ Len(s) <= MAX_WORKERS
    /\ \A k \in 1..Len(s) - 1 : s[k] < s[k + 1]

Layouts ==
    {s \in UNION {[1..n -> 1..MaxLen] : n \in 1..MaxChunks} : IsLayout(s)}

Thirds == <<1, 2, 3>>

NoText == << >>

OutA ==
    [empty |-> FALSE,
     characters |-> << [name |-> <<"J", "(", "P", ")">>,
                        description |-> <<"a300">>] >>,
     locations |-> << [name |-> <<"M">>, description |-> <<"m">>] >>,
     themes |-> <<"love", "wenbenguodu">>,
     summary |-> <<"s">>,
     book_title |-> NoText, author |-> NoText, author_bio |-> <<"bio">>]

OutB ==
    [empty |-> FALSE,
     characters |-> << [name |-> <<"J", "tai", "tai">>,
                        description |-> <<"b200">>],
                       [name |-> <<"K">>, description |-> NoText] >>,
     locations |-> << [name |-> <<"M">>, description |-> <<"n">>] >>,
     themes |-> <<"war">>,
     summary |-> <<"t">>,
     book_title |-> <<"T2">>, author |-> NoText, author_bio |-> NoText]

OutC ==
    [empty |-> FALSE,
     characters |-> << [name |-> <<"K">>, description |-> <<"c">>] >>,
     locations |-> << >>,
     themes |-> <<"fate">>,
     summary |-> NoText,
     book_title |-> NoText, author |-> NoText, author_bio |-> NoText]

\* The service answered with the empty JSON object.
OutEmpty ==
    [empty |-> TRUE, characters |-> << >>, locations |-> << >>,
     themes |-> << >>, summary |-> NoText,
     book_title |-> NoText, author |-> NoText, author_bio |-> NoText]

ThirdsOutputs ==
    {<<OutA, OutB, OutC>>, <<OutB, OutA, OutC>>, <<OutC, OutB, OutA>>,
     <<OutA, OutEmpty, OutB>>, <<OutEmpty, OutB, OutA>>,
     <<OutB, OutC, OutEmpty>>}

DefaultOut(i) ==
    CASE i % 3 = 1 -> OutA
      [] i % 3 = 2 -> OutB
      [] OTHER -> OutC

(***************************************************************************)
(* process_book.                                                           *)
(***************************************************************************)
IdleCall == [state |-> "idle", caller |-> "chunk", retries |-> 0,
             attempt |-> 0, errs |-> << >>, resp |-> << >>]

Alive == pc \in {"wait", "consolidating", "save", "dump", "final_dump", "copy0"}

Terminal == pc \in {"idle", "done", "complete", "failed", "aborted", "killed"}

NoFutures == [i \in 1..TotalChunks |-> "none"]

\* A worker that has returned; "done_early" records that it returned while
\* the worker of an earlier chunk was still running.
Finished == {"done", "done_early"}

\* Tasks whose result the merge loop has not consumed yet.
Remaining == {i \in 1..TotalChunks : futures[i] \in Finished \cup {"running"}}

\* Merging results as they complete instead of in task order.
TaskCandidatesAsCompleted == {i \in Remaining : futures[i] \in Finished}

\* "for task in chunk_tasks": the next task is the first remaining one.
TaskCandidates == IF Remaining = {} THEN {} ELSE {SetMin(Remaining)}

\* Taking a task's result without waiting for its worker.
FutureReadyUnawaited(i) == i \in Remaining

\* future.result() returns once the worker has finished.
FutureReady(i) == futures[i] \in Finished

InitialMaster ==
    IF resume_data = << >> THEN NewMasterData(BookTitle, Author)
    ELSE restore_master_from_checkpoint(NewMasterData(BookTitle, Author),
                                        resume_data[1])

\* No function is being studied on its own.
NoCall == [op |-> "none"]

InitRun ==
    /\ files = << >>
    /\ pc = "idle"
    /\ run = 0
    /\ idx = 0
    /\ start_step = 0
    /\ master = NewMasterData(BookTitle, Author)
    /\ futures = NoFutures
    /\ pending = {}
    /\ resume_data = << >>
    /\ mergeLog = << >>
    /\ eventLog = << >>
    /\ ckptLog = << >>
    /\ fatalSeen = {}
    /\ faults = 0

Init ==
    /\ \/ /\ chunks \in Layouts
          /\ out = [i \in 1..Len(chunks) |-> DefaultOut(i)]
          /\ distill = "head"
       \/ /\ chunks = Thirds
          /\ out \in ThirdsOutputs
          /\ distill = "head"
       \/ /\ chunks = Thirds
          /\ out = [i \in 1..Len(chunks) |-> DefaultOut(i)]
          /\ distill \in DistillKinds
    /\ total_len = chunks[Len(chunks)]
    /\ InitRun
    /\ call = IdleCall
    /\ fn = NoCall

\* What os._exit or a kill leaves behind: the files, and nothing in memory.
Dies(how) ==
    /\ pc' = how
    /\ idx' = 0
    /\ start_step' = 0
    /\ master' = NewMasterData(BookTitle, Author)
    /\ futures' = NoFutures
    /\ pending' = {}
    /\ resume_data' = << >>
    /\ mergeLog' = << >>
    /\ eventLog' = << >>
    /\ ckptLog' = << >>
    /\ fatalSeen' = {}
    /\ UNCHANGED <<chunks, total_len, out, distill, files, run, faults,
                   call, fn>>

\* process_book up to and including the submission of every chunk task.
Start ==
    /\ Terminal
    /\ run < MaxRuns
    /\ run' = run + 1
    /\ resume_data' = find_resume_data(files)
    /\ start_step' = _calculate_start_step(find_resume_pct(files),
                                           find_resume_data(files))
    /\ master' = IF find_resume_data(files) = << >>
                 THEN NewMasterData(BookTitle, Author)
                 ELSE restore_master_from_checkpoint(
                          NewMasterData(BookTitle, Author),
                          find_resume_data(files)[1])
    /\ IF start_step' > TotalChunks
       THEN /\ pc' = "complete"
            /\ futures' = NoFutures
       ELSE /\ pc' = "wait"
            /\ futures' = [i \in 1..TotalChunks |->
                              IF i >= start_step' THEN "running" ELSE "none"]
    /\ idx' = start_step'
    /\ pending' = {}
    /\ mergeLog' = << >>
    /\ eventLog' = << >>
    /\ ckptLog' = << >>
    /\ fatalSeen' = {}
    /\ UNCHANGED <<chunks, total_len, out, distill, files, faults, call, fn>>

\* A pool worker is inside call_ai_with_retry and the attempt fails: the
\* except branch sleeps and the loop goes round again.
WorkerRetry(i) ==
    /\ Alive
    /\ futures[i] = "running"
    /\ \E fatal \in {IsFatalContent(resp) :
                         resp \in {r \in Responses : AttemptOutcome(r) = "retry"}} :
          IF fatal
          THEN /\ faults < MaxFaults
               /\ faults' = faults + 1
               /\ fatalSeen' = fatalSeen \cup {i}
          ELSE UNCHANGED <<faults, fatalSeen>>
    /\ UNCHANGED <<chunks, total_len, out, distill, files, pc, run, idx,
                   start_step, master, futures, pending, resume_data,
                   mergeLog, eventLog, ckptLog, call, fn>>

\* A worker that merges its own result into Master State when it returns.
WorkerReturnMerging(i) ==
    /\ Alive
    /\ futures[i] = "running"
    /\ futures' = [futures EXCEPT ![i] = "done"]
    /\ master' = merge_chunk(master, out[i])
    /\ UNCHANGED <<chunks, total_len, out, distill, files, pc, run, idx,
                   start_step, pending, resume_data, mergeLog, eventLog,
                   ckptLog, fatalSeen, faults, call, fn>>

\* The attempt succeeds and the worker returns the parsed chunk_data.
WorkerReturn(i) ==
    /\ Alive
    /\ futures[i] = "running"
    /\ \E resp \in Responses :
          /\ AttemptOutcome(resp) = "return"
          /\ WorkerOutcome(resp) = "data"
    /\ futures' = [futures EXCEPT ![i] =
                       IF \E j \in 1..(i - 1) : futures[j] = "running"
                       THEN "done_early" ELSE "done"]
    /\ UNCHANGED <<chunks, total_len, out, distill, files, pc, run, idx,
                   start_step, master, pending, resume_data, mergeLog,
                   eventLog, ckptLog, fatalSeen, faults, call, fn>>

\* The worker ends the process: os._exit(1) in call_ai_with_retry (licence
\* error) or in _process_chunk_worker (truncated or unusable response).
WorkerExit(i) ==
    /\ Alive
    /\ futures[i] = "running"
    /\ \E resp \in Responses :
          \/ AttemptOutcome(resp) = "exit"
          \/ AttemptOutcome(resp) = "return" /\ WorkerOutcome(resp) = "exit"
    /\ Dies("aborted")

\* The process is killed from outside (Ctrl-C, power loss).
Interrupt ==
    /\ Alive
    /\ Dies("killed")

\* The merge loop takes the next task's result and merges it.
Merge(i) ==
    /\ pc = "wait"
    /\ i \in TaskCandidates
    /\ FutureReady(i)
    /\ ~out[i].empty
    /\ idx' = i
    /\ master' = merge_chunk(master, out[i])
    /\ futures' = [futures EXCEPT ![i] = "consumed"]
    /\ mergeLog' = Append(mergeLog, [idx |-> i, state |-> futures[i]])
    /\ eventLog' = Append(eventLog, [kind |-> "merge", idx |-> i])
    /\ pending' = SeqRange(get_items_needing_consolidation(
                               merge_chunk(master, out[i])))
    /\ pc' = "consolidating"
    /\ UNCHANGED <<chunks, total_len, out, distill, files, run, start_step,
                   resume_data, ckptLog, fatalSeen, faults,
                   call, fn>>

\* chunk_data is falsy: "Skipped due to AI failure/filtering".
Skip(i) ==
    /\ pc = "wait"
    /\ i \in TaskCandidates
    /\ FutureReady(i)
    /\ out[i].empty
    /\ idx' = i
    /\ futures' = [futures EXCEPT ![i] = "consumed"]
    /\ UNCHANGED <<chunks, total_len, out, distill, files, pc, run,
                   start_step, master, pending, resume_data, mergeLog,
                   eventLog, ckptLog, fatalSeen, faults, call, fn>>

\* consolidate_pending_items: a consolidation worker has finished and its
\* result is applied (as_completed: in any order).
ApplyConsolidation(item) ==
    /\ pc = "consolidating"
    /\ item \in pending
    /\ master' = apply_consolidation(master, item.etype, item.name,
                     consolidate_description_with_ai(distill, item.etype,
                                                     item.name, item.desc))
    /\ pending' = pending \ {item}
    /\ UNCHANGED <<chunks, total_len, out, distill, files, pc, run, idx,
                   start_step, futures, resume_data, mergeLog, eventLog,
                   ckptLog, fatalSeen, faults, call, fn>>

\* A consolidation call ends the process (os._exit(1) in its except branches).
ConsolidationExit ==
    /\ pc = "consolidating"
    /\ pending # {} \/ needs_summary_consolidation(master)
    /\ Dies("aborted")

\* The end of consolidate_pending_items: the summary, if it needs it.
ConsolidateSummary ==
    /\ pc = "consolidating"
    /\ pending = {}
    /\ master' = IF needs_summary_consolidation(master)
                 THEN consolidate_summary(master, distill)
                 ELSE master
    /\ eventLog' = Append(eventLog, [kind |-> "consolidate", idx |-> idx])
    /\ pc' = "save"
    /\ UNCHANGED <<chunks, total_len, out, distill, files, run, idx,
                   start_step, futures, pending, resume_data, mergeLog,
                   ckptLog, fatalSeen, faults, call, fn>>

\* open(filename, "w") of the checkpoint: the file exists and is empty.
SaveOpen ==
    /\ pc = "save"
    /\ files' = PutFile(files, EndPct(idx), Partial)
    /\ pc' = "dump"
    /\ UNCHANGED <<chunks, total_len, out, distill, run, idx, start_step,
                   master, futures, pending, resume_data, mergeLog, eventLog,
                   ckptLog, fatalSeen, faults, call, fn>>

\* json.dump of the checkpoint.
SaveDump ==
    /\ pc = "dump"
    /\ \E slice \in ThemeSlices(master.themes) :
          /\ files' = PutFile(files, EndPct(idx),
                          Complete(to_output_json(master, EndPct(idx), slice)))
          /\ ckptLog' = Append(ckptLog,
                          [idx |-> idx, pct |-> EndPct(idx),
                           data |-> to_output_json(master, EndPct(idx), slice)])
    /\ eventLog' = Append(eventLog, [kind |-> "checkpoint", idx |-> idx])
    /\ pc' = "wait"
    /\ UNCHANGED <<chunks, total_len, out, distill, run, idx, start_step,
                   master, futures, pending, resume_data, mergeLog,
                   fatalSeen, faults, call, fn>>

\* The checkpoint cannot be opened or written (OSError): the except branch
\* of the merge loop prints the error and the loop goes on.
SaveFails ==
    /\ pc \in {"save", "dump"}
    /\ faults < MaxFaults
    /\ faults' = faults + 1
    /\ pc' = "wait"
    /\ UNCHANGED <<chunks, total_len, out, distill, files, run, idx,
                   start_step, master, futures, pending, resume_data,
                   mergeLog, eventLog, ckptLog, fatalSeen, call, fn>>

\* _finalize_output: open("100%.json", "w").
FinalOpen ==
    /\ pc = "wait"
    /\ Remaining = {}
    /\ files' = PutFile(files, 100, Partial)
    /\ pc' = "final_dump"
    /\ UNCHANGED <<chunks, total_len, out, distill, run, idx, start_step,
                   master, futures, pending, resume_data, mergeLog, eventLog,
                   ckptLog, fatalSeen, faults, call, fn>>

\* _finalize_output: json.dump of the final artifact.
FinalDump ==
    /\ pc = "final_dump"
    /\ \E slice \in ThemeSlices(master.themes) :
          files' = PutFile(files, 100,
                       Complete(to_output_json(master, 100, slice)))
    /\ pc' = "copy0"
    /\ UNCHANGED <<chunks, total_len, out, distill, run, idx, start_step,
                   master, futures, pending, resume_data, mergeLog, eventLog,
                   ckptLog, fatalSeen, faults, call, fn>>

\* The final artifact cannot be written: the exception leaves process_book.
FinalFails ==
    /\ (pc = "wait" /\ Remaining = {}) \/ pc = "final_dump"
    /\ faults < MaxFaults
    /\ faults' = faults + 1
    /\ pc' = "failed"
    /\ UNCHANGED <<chunks, total_len, out, distill, files, run, idx,
                   start_step, master, futures, pending, resume_data,
                   mergeLog, eventLog, ckptLog, fatalSeen, call, fn>>

\* _finalize_output: the earliest snapshot is copied to 0%.json.
CopyZero ==
    /\ pc = "copy0"
    /\ files' = PutFile(files, 0, files[SetMin(DOMAIN files \ {0})])
    /\ pc' = "done"
    /\ UNCHANGED <<chunks, total_len, out, distill, run, idx, start_step,
                   master, futures, pending, resume_data, mergeLog, eventLog,
                   ckptLog, fatalSeen, faults, call, fn>>

Next ==
    \/ Start
    \/ \E i \in 1..TotalChunks : WorkerRetry(i)
    \/ \E i \in 1..TotalChunks : WorkerReturn(i)
    \/ \E i \in 1..TotalChunks : WorkerExit(i)
    \/ Interrupt
    \/ \E i \in 1..TotalChunks : Merge(i)
    \/ \E i \in 1..TotalChunks : Skip(i)
    \/ \E item \in pending : ApplyConsolidation(item)
    \/ ConsolidationExit
    \/ ConsolidateSummary
    \/ SaveOpen
    \/ SaveDump
    \/ SaveFails
    \/ FinalOpen
    \/ FinalDump
    \/ FinalFails
    \/ CopyZero

Spec == Init /\ [][Next]_vars

(***************************************************************************)
(* One invocation of call_ai_with_retry on its own, with its caller.       *)
(***************************************************************************)
CONSOLIDATE_RETRIES == 3

NoResp == [exc |-> "none", content |-> "none", finish_reason |-> "none"]

\* The retries argument each caller passes.
RetriesOf(caller) ==
    IF caller = "chunk" THEN MAX_RETRIES + 1 ELSE CONSOLIDATE_RETRIES

\* consolidate_description_with_ai / consolidate_summary_with_ai after
\* call_ai_with_retry has returned.
ConsolidationOutcome(resp) ==
    CASE resp.content = "none" -> "data"
      [] resp.content = "invalid" -> "exit"
      [] resp.content = "nonobject" -> "exit"
      [] OTHER -> "data"

InitRetry ==
    /\ chunks = <<1>>
    /\ out = <<OutA>>
    /\ distill = "head"
    /\ total_len = 1
    /\ InitRun
    /\ \E caller \in {"chunk", "description", "summary"} :
          call = [state |-> "running", caller |-> caller,
                  retries |-> RetriesOf(caller), attempt |-> 0,
                  errs |-> << >>, resp |-> NoResp]
    /\ fn = NoCall

\* One iteration of "while True" that ends in the except branch.
CallRetry ==
    /\ call.state = "running"
    /\ call.attempt < MaxAttempt
    /\ \E resp \in Responses :
          /\ AttemptOutcome(resp) = "retry"
          /\ call' = [call EXCEPT !.attempt = @ + 1,
                                  !.errs = Append(@, resp)]
    /\ UNCHANGED <<runVars, fn>>

\* One iteration that returns the response to the caller.
CallReturn ==
    /\ call.state = "running"
    /\ call.attempt < MaxAttempt
    /\ \E resp \in Responses :
          /\ AttemptOutcome(resp) = "return"
          /\ call' = [call EXCEPT !.attempt = @ + 1, !.resp = resp,
                                  !.state = "returned"]
    /\ UNCHANGED <<runVars, fn>>

\* One iteration that ends the process (licence error).
CallExit ==
    /\ call.state = "running"
    /\ call.attempt < MaxAttempt
    /\ \E resp \in Responses :
          /\ AttemptOutcome(resp) = "exit"
          /\ call' = [call EXCEPT !.attempt = @ + 1, !.state = "exited"]
    /\ UNCHANGED <<runVars, fn>>

\* The caller looks at the returned response.
CallerHandles ==
    /\ call.state = "returned"
    /\ call' = [call EXCEPT !.state =
                   IF (IF call.caller = "chunk" THEN WorkerOutcome(call.resp)
                       ELSE ConsolidationOutcome(call.resp)) = "exit"
                   THEN "exited" ELSE "data"]
    /\ UNCHANGED <<runVars, fn>>

NextRetry == CallRetry \/ CallReturn \/ CallExit \/ CallerHandles

SpecRetry == InitRetry /\ [][NextRetry]_vars

(***************************************************************************)
(* Strictly sequential dispatch: one chunk at a time, each merged,         *)
(* consolidated and checkpointed before the next is analysed.              *)
(***************************************************************************)
RECURSIVE ApplyAll(_, _, _)
ApplyAll(m, items, kind) ==
    IF items = << >> THEN m
    ELSE ApplyAll(
             apply_consolidation(m, Head(items).etype, Head(items).name,
                 consolidate_description_with_ai(kind, Head(items).etype,
                     Head(items).name, Head(items).desc)),
             Tail(items), kind)

consolidate_pending_items(m, kind) ==
    LET applied == ApplyAll(m, get_items_needing_consolidation(m), kind)
    IN  IF needs_summary_consolidation(applied)
        THEN consolidate_summary(applied, kind)
        ELSE applied

RECURSIVE SequentialFrom(_, _, _)
SequentialFrom(m0, first, i) ==
    IF i < first THEN m0
    ELSE IF out[i].empty THEN SequentialFrom(m0, first, i - 1)
    ELSE consolidate_pending_items(
             merge_chunk(SequentialFrom(m0, first, i - 1), out[i]), distill)

\* The Master State of this run after chunk i under sequential dispatch.
SequentialMaster(i) == SequentialFrom(InitialMaster, start_step, i)

\* The Master State of a run that is never interrupted.
UninterruptedMaster ==
    SequentialFrom(NewMasterData(BookTitle, Author), 1, TotalChunks)

Names(items) == {items[k].name : k \in 1..Len(items)}

(***************************************************************************)
(* Claims.                                                                 *)
(***************************************************************************)

\* C1: whatever order the workers complete in, chunk results are merged in
\* strictly ascending chunk-index order, and a chunk is merged only after
\* its own worker has completed.
C1_MergeInChunkOrder ==
    /\ \A j \in 1..(Len(mergeLog) - 1) : mergeLog[j].idx < mergeLog[j + 1].idx
    /\ \A j \in 1..Len(mergeLog) : mergeLog[j].state \in Finished

\* Workers complete out of order while the loop merges: a chunk has been
\* merged, the next task's worker is still running and the worker of the
\* task after it has already finished.
C1_Witness ==
    /\ Len(mergeLog) >= 1
    /\ pc = "wait"
    /\ \E i, j \in 1..TotalChunks :
          /\ i < j
          /\ futures[i] = "running"
          /\ futures[j] = "done_early"

\* C2: under any completion order of the workers, the Master State after
\* each consolidated merge, every checkpoint written, and the Master State
\* after the last merge are the ones strictly sequential dispatch produces.
C2_SameAsSequential ==
    /\ \A j \in 1..Len(ckptLog) :
          /\ ckptLog[j].data.themes
                \in ThemeSlices(SequentialMaster(ckptLog[j].idx).themes)
          /\ ckptLog[j].data =
                to_output_json(SequentialMaster(ckptLog[j].idx),
                               ckptLog[j].pct, ckptLog[j].data.themes)
    /\ pc \in {"save", "dump"} => master = SequentialMaster(idx)
    /\ pc \in {"final_dump", "copy0", "done"}
          => master = SequentialMaster(TotalChunks)

\* A run has finished in which three chunks were merged, a description was
\* consolidated, and a chunk's worker had returned before an earlier
\* chunk's worker.
C2_Witness ==
    /\ pc = "done"
    /\ Len(ckptLog) = 3
    /\ \E j \in 1..Len(mergeLog) : mergeLog[j].state = "done_early"
    /\ \E k \in 1..Len(master.characters) :
          Truthy(master.characters[k].consolidated)

\* The first chunk whose cumulative percentage exceeds pct (TotalChunks + 1
\* when there is none).
FirstChunkBeyond(pct) ==
    LET beyond == {i \in 1..TotalChunks : chunks[i] * 100 > pct * total_len}
    IN  IF beyond = {} THEN TotalChunks + 1 ELSE SetMin(beyond)

\* C3: a run that resumes from the checkpoint with the highest percentage P
\* starts at the first chunk whose cumulative percentage exceeds P.
C3_ResumeAtFirstChunkBeyond ==
    resume_data # << >>
        => start_step = FirstChunkBeyond(resume_data[1].analysis_progress)

\* C4: when a run is interrupted after a checkpoint and restarted, the
\* final artifact of the resumed run holds every character, location and
\* theme that the final artifact of an uninterrupted run holds.
C4_ResumeLosesNothing ==
    (pc = "done" /\ resume_data # << >> /\ faults = 0)
        => /\ Names(OutputItems(UninterruptedMaster.characters))
                 \subseteq Names(files[100].data[1].characters)
           /\ Names(OutputItems(UninterruptedMaster.locations))
                 \subseteq Names(files[100].data[1].locations)
           /\ \A slice \in ThemeSlices(UninterruptedMaster.themes) :
                 slice \subseteq files[100].data[1].themes

\* C5: after a restore, whatever is merged and consolidated afterwards, the
\* character keys, the location keys and the themes of the restored
\* checkpoint are all still in Master State.
C5_RestoredContentKept ==
    resume_data # << >>
        => /\ {normalize_for_dedup(n) :
                  n \in Names(resume_data[1].characters)}
                 \subseteq Keys(master.characters)
           /\ {normalize_location_name(n) :
                  n \in Names(resume_data[1].locations)}
                 \subseteq Keys(master.locations)
           /\ resume_data[1].themes \subseteq master.themes

\* A resumed run has restored a checkpoint that holds entities and themes,
\* and has since merged a chunk and applied its consolidations.
C5_Witness ==
    /\ resume_data # << >>
    /\ resume_data[1].characters # << >>
    /\ resume_data[1].themes # {}
    /\ Len(mergeLog) >= 1
    /\ pc = "save"
    /\ \E k \in 1..Len(master.characters) :
          Truthy(master.characters[k].consolidated)

\* C6: the percentages of the checkpoints written in a run never decrease,
\* and the checkpoint written after merging chunk i is keyed by chunk i's
\* cumulative end offset as a percentage of the total length (rounded up).
C6_CheckpointPercentages ==
    /\ \A j \in 1..(Len(ckptLog) - 1) : ckptLog[j].pct <= ckptLog[j + 1].pct
    /\ \A j \in 1..Len(ckptLog) :
          /\ \E k \in 1..Len(mergeLog) : mergeLog[k].idx = ckptLog[j].idx
          /\ ckptLog[j].pct * total_len >= chunks[ckptLog[j].idx] * 100
          /\ (ckptLog[j].pct - 1) * total_len < chunks[ckptLog[j].idx] * 100
          /\ ckptLog[j].pct \in DOMAIN files
          /\ ckptLog[j].data.analysis_progress = ckptLog[j].pct

\* Three checkpoints have been written in one run.
C6_Witness ==
    /\ Len(ckptLog) >= 3
    /\ ckptLog[1].pct < ckptLog[2].pct

\* C7: for every merged chunk the steps are merge, consolidation pass,
\* checkpoint write, in this order, and the next merge never starts before
\* the checkpoint of the chunk merged before it has been written.
C7_MergeConsolidateCheckpoint ==
    \A j \in 1..Len(eventLog) :
        CASE eventLog[j].kind = "merge" ->
                 j = 1 \/ eventLog[j - 1].kind = "checkpoint"
          [] eventLog[j].kind = "consolidate" ->
                 /\ j > 1
                 /\ eventLog[j - 1] = [kind |-> "merge", idx |-> eventLog[j].idx]
          [] OTHER ->
                 /\ j > 1
                 /\ eventLog[j - 1] =
                        [kind |-> "consolidate", idx |-> eventLog[j].idx]

\* C8: once the analysis call of chunk i has yielded a fatal content error,
\* no checkpoint of chunk i or of a later chunk and no final artifact is
\* written.
C8_FatalContentAborts ==
    \A i \in fatalSeen :
        /\ \A j \in 1..Len(ckptLog) : ckptLog[j].idx < i
        /\ pc \notin {"final_dump", "copy0", "done"}

\* C9: when the service keeps answering with output that is no JSON, the
\* chunk-analysis call stops after its bounded number of attempts and the
\* process is aborted.
C9_MalformedOutputAborts ==
    ( /\ call.caller = "chunk"
      /\ Len(call.errs) >= call.retries
      /\ \A k \in 1..Len(call.errs) : IsMalformed(call.errs[k]) )
        => call.state = "exited"

\* C10: under repeated transient errors call_ai_with_retry makes at most
\* as many attempts as its retries parameter says.
C10_TransientAttemptsBounded ==
    (\A k \in 1..Len(call.errs) : IsTransient(call.errs[k]))
        => call.attempt <= call.retries

\* C11: the process is never ended by a pool worker: no step that ends it
\* is the os._exit(1) of a chunk-analysis worker or of a consolidation
\* worker.
C11_OnlyCoordinatorTerminates ==
    [][~((\E i \in 1..TotalChunks : WorkerExit(i)) \/ ConsolidationExit)]_vars

\* C12: a chunk that was merged and whose checkpoint could not be written is
\* the last chunk merged in the run, and no final artifact is written after
\* it.
C12_CheckpointFailureFatal ==
    \A j \in 1..Len(mergeLog) :
        (~\E k \in 1..Len(ckptLog) : ckptLog[k].idx = mergeLog[j].idx)
            => /\ j = Len(mergeLog)
               /\ pc \notin {"final_dump", "copy0", "done"}

\* C13: Master State changes only in steps of the orchestrating thread (the
\* restore at the start, the ordered merge, the application of a
\* consolidation result, the summary consolidation) or when the process
\* ends; no step of a pool worker changes it.
C13_SingleWriter ==
    [][master' # master
          => \/ Start
             \/ \E i \in 1..TotalChunks : Merge(i)
             \/ \E item \in pending : ApplyConsolidation(item)
             \/ ConsolidateSummary
             \/ pc' \in {"aborted", "killed"}]_vars

\* Master State holds a merged chunk and an applied consolidation while
\* the worker of a later chunk is still running.
C13_Witness ==
    /\ pc = "save"
    /\ \E i \in 1..TotalChunks : futures[i] = "running"
    /\ \E k \in 1..Len(master.characters) :
          Truthy(master.characters[k].consolidated)

\* The entities of Master State, characters first.
Entities(m) == m.characters \o m.locations

\* Every entity a step finds in Master State is still there afterwards,
\* under the same display name: a merge, a consolidation and the summary
\* step keep the entities in place, and a resuming start gives every entity
\* of the checkpoint it reads the name the checkpoint shows.
DisplayNamesKept ==
    IF run' # run
    THEN resume_data' # << >> =>
            /\ \A k \in 1..Len(resume_data'[1].characters) :
                  \E j \in 1..Len(master'.characters) :
                     master'.characters[j].display_name
                         = resume_data'[1].characters[k].name
            /\ \A k \in 1..Len(resume_data'[1].locations) :
                  \E j \in 1..Len(master'.locations) :
                     master'.locations[j].display_name
                         = resume_data'[1].locations[k].name
    ELSE pc' \notin {"aborted", "killed"} =>
            /\ \A k \in 1..Len(master.characters) :
                  /\ k <= Len(master'.characters)
                  /\ master'.characters[k].key = master.characters[k].key
                  /\ master'.characters[k].display_name
                         = master.characters[k].display_name
            /\ \A k \in 1..Len(master.locations) :
                  /\ k <= Len(master'.locations)
                  /\ master'.locations[k].key = master.locations[k].key
                  /\ master'.locations[k].display_name
                         = master.locations[k].display_name

\* The chunks merged so far in this run that named a character.
NamingMerges ==
    {k \in 1..Len(mergeLog) : out[mergeLog[k].idx].characters # << >>}

\* The spelling under which the first character of this run was first seen.
FirstSeenSpelling ==
    Strip(out[mergeLog[SetMin(NamingMerges)].idx].characters[1].name)

FreshRunWithCharacter ==
    resume_data = << >> /\ NamingMerges # {} /\ master.characters # << >>

\* C19 as stated: the display name of an Entity is the spelling under which
\* it was first seen, and no later merge, consolidation or
\* restore-and-continue changes the display name of an existing Entity.
C19_DisplayIsFirstSeenSpelling ==
    [][/\ FreshRunWithCharacter'
            => master'.characters[1].display_name = FirstSeenSpelling'
       /\ DisplayNamesKept]_vars

\* C19 as the code has it: the display name of an Entity is its dedup key,
\* the normalised form of the name under which it was first seen, and no
\* later merge, consolidation or restore-and-continue changes the display
\* name of an existing Entity.
C19_DisplayIsKeyOfFirstSeen ==
    [][/\ \A k \in 1..Len(Entities(master')) :
             Entities(master')[k].display_name = Entities(master')[k].key
       /\ FreshRunWithCharacter'
            => master'.characters[1].display_name = DedupKey(FirstSeenSpelling')
       /\ DisplayNamesKept]_vars

\* A resumed run has merged a chunk that names a restored character under
\* another spelling, and has consolidated that character again.
C19_Witness ==
    /\ resume_data # << >>
    /\ mergeLog # << >>
    /\ \E k \in 1..Len(master.characters) :
          /\ \E j \in 1..Len(resume_data[1].characters) :
                resume_data[1].characters[j].name
                    = master.characters[k].display_name
          /\ \E n \in NamingMerges :
                \E c \in 1..Len(out[mergeLog[n].idx].characters) :
                   LET raw == out[mergeLog[n].idx].characters[c].name
                   IN  /\ raw # master.characters[k].display_name
                       /\ DedupKey(raw) = master.characters[k].key
          /\ Truthy(master.characters[k].consolidated)

\* The entities of one type.
EntitiesOfType(m, etype) ==
    IF etype = "character" THEN m.characters ELSE m.locations

\* Master State after the call for item, seen from the state before it:
\* only the entity of item differs, and it holds the one description the
\* service returned for its joined fragments.
OnlyItemReplaced(item) ==
    /\ \A etype \in {"character", "location"} :
          /\ Len(EntitiesOfType(master', etype))
                 = Len(EntitiesOfType(master, etype))
          /\ \A k \in 1..Len(EntitiesOfType(master, etype)) :
                LET before == EntitiesOfType(master, etype)[k]
                    after == EntitiesOfType(master', etype)[k]
                IN  IF etype = item.etype /\ before.key = item.name
                    THEN /\ before.consolidated = << >>
                         /\ Len(before.descriptions) > 1
                         /\ after.descriptions = << >>
                         /\ after.consolidated
                                = <<Distilled(distill, Join(before.descriptions))>>
                         /\ after.key = before.key
                         /\ after.display_name = before.display_name
                    ELSE after = before
    /\ master'.themes = master.themes
    /\ master'.summary_parts = master.summary_parts

\* C21: in a consolidation pass the entities still waiting for their call
\* are exactly the triggered ones; every call is for one of them, takes it
\* off the list for the rest of the pass, replaces its fragments by the one
\* description returned for it and leaves every other entity unchanged; the
\* pass goes on to the summary only when no triggered entity is left.
C21_OneCallPerTriggered ==
    [][/\ pc' = "consolidating"
            => pending' = SeqRange(get_items_needing_consolidation(master'))
       /\ (pc = "consolidating" /\ pc' = "consolidating" /\ pending' # pending)
            => \E item \in pending :
                  /\ pending' = pending \ {item}
                  /\ OnlyItemReplaced(item)
       /\ (pc = "consolidating" /\ pc' = "save")
            => /\ pending = {}
               /\ get_items_needing_consolidation(master') = << >>
               /\ master'.characters = master.characters
               /\ master'.locations = master.locations]_vars

\* A pass has ended in which one character was consolidated while another
\* entity, not triggered, still holds what it held.
C21_Witness ==
    /\ pc = "save"
    /\ \E k \in 1..Len(master.characters) :
          /\ master.characters[k].consolidated # << >>
          /\ master.characters[k].descriptions = << >>
    /\ \E k \in 1..Len(Entities(master)) :
          /\ Entities(master)[k].consolidated = << >>
          /\ Len(Entities(master)[k].descriptions) = 1

\* The checkpoint a starting run restores covers the last chunk.
RestoredCoversLastChunk ==
    /\ resume_data # << >>
    /\ resume_data[1].analysis_progress >= ChunkPct(TotalChunks)

\* C23: a run that restores a checkpoint whose percentage covers the last
\* chunk is reported complete at once, with no analysis task submitted, no
\* consolidation pending and no file touched; and a run reported complete
\* takes no further step (the next step is the start of another run, which
\* writes no file either).
C23_CompleteDoesNothing ==
    [][/\ (run' # run /\ RestoredCoversLastChunk')
            => /\ pc' = "complete"
               /\ futures' = NoFutures
               /\ pending' = {}
               /\ files' = files
               /\ mergeLog' = << >> /\ ckptLog' = << >>
       /\ pc = "complete" => (run' # run /\ files' = files)]_vars

\* A second run found the 100% artifact of the first and was reported
\* complete.
C23_Witness ==
    /\ pc = "complete"
    /\ run = 2
    /\ RestoredCoversLastChunk
    /\ 100 \in DOMAIN files /\ files[100].complete

\* The percentages of the artifacts in the output directory.
ArtifactPcts == {p \in DOMAIN files : p > 0}

\* The artifact of the highest percentage cannot be parsed.
HighestUnreadable ==
    ArtifactPcts # {} /\ ~files[SetMax(ArtifactPcts)].complete

\* C31: a starting run restores the artifact of the maximum percentage;
\* when that artifact cannot be read or parsed, the run starts at chunk 1
\* with an empty Master State, whatever lower checkpoints exist.
C31_HighestRestoredOrFresh ==
    [][run' # run =>
          IF ArtifactPcts = {} \/ HighestUnreadable
          THEN /\ master' = NewMasterData(BookTitle, Author)
               /\ resume_data' = << >>
               /\ start_step' = 1
               /\ pc' = "wait"
               /\ \A i \in 1..TotalChunks : futures'[i] = "running"
          ELSE /\ resume_data' = files[SetMax(ArtifactPcts)].data
               /\ master' = restore_master_from_checkpoint(
                                NewMasterData(BookTitle, Author),
                                files[SetMax(ArtifactPcts)].data[1])]_vars

\* A second run has started at chunk 1 with an empty Master State: the
\* highest artifact is a file that was opened and never written, and a
\* lower checkpoint with content is on disk.
C31_Witness ==
    /\ run = 2
    /\ pc = "wait"
    /\ start_step = 1
    /\ mergeLog = << >>
    /\ master = NewMasterData(BookTitle, Author)
    /\ HighestUnreadable
    /\ \E q \in ArtifactPcts :
          /\ files[q].complete
          /\ files[q].data[1].characters # << >>

\* The run has reached _finalize_output and opened the 100% artifact.
Finalizing == pc \in {"final_dump", "copy0", "done"}

\* C32: once the 100% artifact is being written, every chunk from the start
\* index to the last one has been merged into Master State and its
\* checkpoint has been written in this run.
C32_FinalAfterEveryChunk ==
    Finalizing =>
        \A i \in start_step..TotalChunks :
            /\ \E k \in 1..Len(mergeLog) : mergeLog[k].idx = i
            /\ \E k \in 1..Len(ckptLog) : ckptLog[k].idx = i

\* C36: when a pool worker ends the process while the merge loop is
\* between the open and the json.dump of a checkpoint, every file in the
\* output directory holds a complete serialized Master State.
C36_AbortLeavesNoPartialFile ==
    [][(pc = "dump" /\ pc' = "aborted")
          => \A p \in DOMAIN files' : files'[p].complete]_vars

(***************************************************************************)
(* build_chunks.  A section is a title and a text; a text is a sequence of *)
(* characters.  The sizes are scaled down: the chunk limit (15000 in the   *)
(* source) to MaxChunkSize characters and the backward search for a line   *)
(* break (500 in the source) to MaxLookback characters.                    *)
(***************************************************************************)
MaxChunkSize == 14
MaxLookback == 3
MaxTextLen == 17

MAX_CHUNK_SIZE == MaxChunkSize

LOOKBACK == MaxLookback

Min(a, b) == IF a < b THEN a ELSE b
Max(a, b) == IF a > b THEN a ELSE b

Digits == <<"0", "1", "2", "3", "4", "5", "6", "7", "8", "9">>

\* The header line of a section, and of the segment_idx-th further segment
\* of a section that was split ("lb" and "rb" are the lenticular brackets,
\* "xu" the continuation mark).
Header(chapter_title, segment_idx) ==
    IF segment_idx = 0
    THEN <<"lb">> \o chapter_title \o <<"rb">>
    ELSE <<"lb">> \o chapter_title
             \o <<"fw(", "xu", Digits[segment_idx + 1], "fw)", "rb">>

SegmentTitle(chapter_title, segment_idx) ==
    IF segment_idx = 0 THEN chapter_title
    ELSE chapter_title \o <<"fw(", "xu", Digits[segment_idx + 1], "fw)">>

\* f"{header}\n{text}\n\n"
WithHeader(header, text) == header \o <<"\n">> \o text \o <<"\n", "\n">>

\* A search that returns the first line break of the window.
RECURSIVE FindFirst(_, _, _)
FindFirst(text, lo, hi) ==
    IF hi <= lo THEN -1
    ELSE IF text[lo + 1] = "\n" THEN lo
    ELSE FindFirst(text, lo + 1, hi)

\* chapter_text.rfind("\n", lo, hi): positions count from 0; -1 when none.
RECURSIVE RFind(_, _, _)
RFind(text, lo, hi) ==
    IF hi <= lo THEN -1
    ELSE IF text[hi] = "\n" THEN hi - 1
    ELSE RFind(text, lo, hi - 1)

\* Where the segment that starts at start ends.
SegmentEnd(text, start) ==
    LET chapter_len == Len(text)
        end == Min(start + MAX_CHUNK_SIZE, chapter_len)
        search_start == Max(end - LOOKBACK, start)
        last_newline == RFind(text, search_start, end)
    IN  IF end < chapter_len /\ last_newline > start
        THEN last_newline + 1
        ELSE end

\* A slice that starts one character late.
SegmentTextOffByOne(text, start, end) == SubSeq(text, start + 2, end)

\* chapter_text[start:end]
SegmentText(text, start, end) == SubSeq(text, start + 1, end)

\* An end offset that counts from the start of the section only.
SegmentEndPosLocal(chars_processed, end) == end

\* chars_processed + end
SegmentEndPos(chars_processed, end) == chars_processed + end

\* The while loop over an oversized section.
RECURSIVE Segments(_, _, _, _)
Segments(chapter, start, segment_idx, chars_processed) ==
    IF start >= Len(chapter.text) THEN << >>
    ELSE LET end == SegmentEnd(chapter.text, start)
             segment_with_header ==
                 WithHeader(Header(chapter.title, segment_idx),
                            SegmentText(chapter.text, start, end))
         IN  << [titles |-> <<SegmentTitle(chapter.title, segment_idx)>>,
                 text |-> Strip(segment_with_header),
                 end_pos |-> SegmentEndPos(chars_processed, end)] >>
             \o Segments(chapter, end, segment_idx + 1, chars_processed)

\* chunks.append((current_titles, current_text.strip(), chars_processed))
\* and the reset of the accumulator.
Flush(st) ==
    [st EXCEPT !.chunks = Append(@, [titles |-> st.current_titles,
                                     text |-> Strip(st.current_text),
                                     end_pos |-> st.chars_processed]),
               !.current_titles = << >>,
               !.current_text = << >>]

\* One iteration of the for loop over the sections.
BuildStep(st, chapter) ==
    LET chapter_len == Len(chapter.text)
    IN  IF chapter_len > MAX_CHUNK_SIZE
        THEN LET st1 == IF Strip(st.current_text) # << >> THEN Flush(st)
                        ELSE st
             IN  [st1 EXCEPT
                    !.chunks = @ \o Segments(chapter, 0, 0, st1.chars_processed),
                    !.chars_processed = @ + chapter_len]
        ELSE LET chapter_with_header ==
                     WithHeader(Header(chapter.title, 0), chapter.text)
                 st1 == IF /\ st.current_text # << >>
                           /\ Len(st.current_text) + Len(chapter_with_header)
                                  > MAX_CHUNK_SIZE
                        THEN Flush(st)
                        ELSE st
             IN  [st1 EXCEPT
                    !.current_titles = Append(@, chapter.title),
                    !.current_text = @ \o chapter_with_header,
                    !.chars_processed = @ + chapter_len]

RECURSIVE BuildFrom(_, _)
BuildFrom(st, chapters) ==
    IF chapters = << >> THEN st
    ELSE BuildFrom(BuildStep(st, Head(chapters)), Tail(chapters))

build_chunks(chapters) ==
    LET st == BuildFrom([chunks |-> << >>, current_titles |-> << >>,
                         current_text |-> << >>, chars_processed |-> 0],
                        chapters)
    IN  IF Strip(st.current_text) # << >> THEN Flush(st).chunks
        ELSE st.chunks

(***************************************************************************)
(* build_chunks on its own.  get_chapters only delivers sections whose     *)
(* text holds more than white space.  A text is a run of letters with at   *)
(* most one line break in it, anywhere.                                    *)
(***************************************************************************)
Letters == <<"a", "b", "c">>

TextOf(n, k) ==
    [i \in 1..n |-> IF i = k THEN "\n" ELSE Letters[(i % Len(Letters)) + 1]]

Texts ==
    {t \in {TextOf(n, k) : n \in 1..MaxTextLen, k \in 0..MaxTextLen} :
        Strip(t) # << >>}

ShortTexts == {t \in Texts : Len(t) <= Len(Letters)}

Section(text) == [title |-> <<"t">>, text |-> text]

ChapterLists ==
    {<<Section(t)>> : t \in Texts}
    \cup {<<Section(t), Section(u)>> : t \in Texts, u \in ShortTexts}
    \cup {<<Section(t), Section(u)>> : t \in ShortTexts, u \in Texts}
    \cup {<<Section(t), Section(u), Section(v)>> :
              t \in ShortTexts, u \in ShortTexts, v \in ShortTexts}

\* No run of process_book is under way.
NoRun ==
    /\ chunks = <<1>>
    /\ out = <<OutA>>
    /\ distill = "head"
    /\ total_len = 1
    /\ InitRun
    /\ call = IdleCall

RECURSIVE SumLen(_)
SumLen(chapters) ==
    IF chapters = << >> THEN 0
    ELSE Len(Head(chapters).text) + SumLen(Tail(chapters))

InitChunks ==
    /\ NoRun
    /\ \E chapters \in ChapterLists :
          fn = [op |-> "build_chunks", chapters |-> chapters,
                total_len |-> SumLen(chapters), done |-> FALSE,
                chunks |-> << >>]

\* chunks = build_chunks(chapters)
BuildChunks ==
    /\ fn.op = "build_chunks"
    /\ ~fn.done
    /\ fn' = [fn EXCEPT !.done = TRUE, !.chunks = build_chunks(fn.chapters)]
    /\ UNCHANGED <<runVars, call>>

SpecChunks == InitChunks /\ [][BuildChunks]_vars

Built == fn.op = "build_chunks" /\ fn.done

RECURSIVE Concat(_)
Concat(seqs) ==
    IF seqs = << >> THEN << >> ELSE Head(seqs) \o Concat(Tail(seqs))

Payloads == Concat([k \in 1..Len(fn.chunks) |-> fn.chunks[k].text])

SectionTexts == Concat([k \in 1..Len(fn.chapters) |-> fn.chapters[k].text])

IsLetter(c) == c \in SeqRange(Letters)

LettersOf(s) == SelectSeq(s, IsLetter)

PrevEnd(k) == IF k = 1 THEN 0 ELSE fn.chunks[k - 1].end_pos

C15_OffsetsIncreaseToTotal ==
    Built =>
        /\ \A k \in 1..Len(fn.chunks) : PrevEnd(k) < fn.chunks[k].end_pos
        /\ fn.chunks # << >>
        /\ fn.chunks[Len(fn.chunks)].end_pos = fn.total_len

\* Three short sections, of which the first two share a chunk.
C15_Witness ==
    /\ Built
    /\ Len(fn.chapters) = 3
    /\ Len(fn.chunks) = 2
    /\ Len(fn.chunks[1].titles) = 2

\* C16: no chunk's payload is longer than MAX_CHUNK_SIZE.
C16_PayloadBounded ==
    Built => \A k \in 1..Len(fn.chunks) :
                 Len(fn.chunks[k].text) <= MAX_CHUNK_SIZE

(***************************************************************************)
(* Name normalisation and the merge of two mentions on their own.          *)
(***************************************************************************)
MaxNameLen == 3

NameChars == {"J", "K", "lao", "xiao", "tai", "ma", "maT", "de", "(", ")", " "}

RawNames == UNION {[1..n -> NameChars] : n \in 0..MaxNameLen}

\* Names without annotation or title, and what a mention may add to one: a
\* parenthetical annotation, a prefix or a suffix of NAME_PREFIXES and
\* NAME_SUFFIXES, the suffix also in its traditional spelling.
BaseNames == {<<"J">>, <<"K", "J">>}

Decorations == {"none", "annotation", "prefix", "suffix", "suffixT", "both"}

Decorate(base, how) ==
    CASE how = "annotation" -> base \o <<" ", "(", "K", ")">>
      [] how = "prefix" -> <<"lao">> \o base
      [] how = "suffix" -> base \o <<"tai", "tai">>
      [] how = "suffixT" -> base \o <<"maT", "maT">>
      [] how = "both" -> <<"lao">> \o base \o <<"ma", "ma">>
      [] OTHER -> base

Mention(name, description) ==
    [empty |-> FALSE,
     characters |-> << [name |-> name, description |-> description] >>,
     locations |-> << >>, themes |-> << >>, summary |-> NoText,
     book_title |-> NoText, author |-> NoText, author_bio |-> NoText]

InitNames ==
    /\ NoRun
    /\ \/ \E raw \in RawNames :
             fn = [op |-> "normalize", raw |-> raw, done |-> FALSE,
                   key |-> << >>]
       \/ \E base \in BaseNames, first \in Decorations, second \in Decorations :
             /\ first # second
             /\ fn = [op |-> "merge_chunk",
                      mentions |-> <<Mention(Decorate(base, first), <<"d1">>),
                                     Mention(Decorate(base, second), <<"d2">>)>>,
                      base |-> base, merged |-> 0,
                      master |-> NewMasterData(BookTitle, Author)]

\* The key of a raw name, as _merge_characters computes it.
Normalize ==
    /\ fn.op = "normalize"
    /\ ~fn.done
    /\ fn' = [fn EXCEPT !.done = TRUE, !.key = DedupKey(fn.raw)]
    /\ UNCHANGED <<runVars, call>>

\* master.merge_chunk(chunk_data) for the next of the two results.
MergeMention ==
    /\ fn.op = "merge_chunk"
    /\ fn.merged < Len(fn.mentions)
    /\ fn' = [fn EXCEPT !.merged = @ + 1,
                        !.master = merge_chunk(@, fn.mentions[fn.merged + 1])]
    /\ UNCHANGED <<runVars, call>>

NextNames == Normalize \/ MergeMention

SpecNames == InitNames /\ [][NextNames]_vars

\* C17: the key of a key is the key itself.
C17_NormalizeIdempotent ==
    (fn.op = "normalize" /\ fn.done /\ fn.key # << >>)
        => DedupKey(fn.key) = fn.key

\* C18: two mentions of one character whose names differ only by an
\* annotation, a prefix or a suffix end up in one Entity that holds both
\* descriptions in merge order.
C18_VariantsMergeIntoOne ==
    (fn.op = "merge_chunk" /\ fn.merged = Len(fn.mentions))
        => /\ Len(fn.master.characters) = 1
           /\ fn.master.characters[1].descriptions = <<<<"d1">>, <<"d2">>>>
           /\ fn.master.characters[1].consolidated = << >>

(***************************************************************************)
(* get_items_needing_consolidation on its own: Master State holds one      *)
(* entity, in one of the shapes the merge, the consolidation and the       *)
(* restore leave an entity in.                                             *)
(***************************************************************************)
MaxFragments == 3

Fragments == {<<"c">>, <<"b200">>, <<"a300">>, <<"S1600">>}

FragmentLists == UNION {[1..n -> Fragments] : n \in 0..MaxFragments}

\* Never consolidated or reopened by a merge; consolidated, or restored;
\* consolidated to or restored with the empty string and merged into since.
EntityShapes ==
    {[key |-> <<"J">>, display_name |-> <<"J">>, descriptions |-> ds,
      consolidated |-> << >>] : ds \in FragmentLists}
    \cup
    UNION {{[key |-> <<"J">>, display_name |-> <<"J">>, descriptions |-> ds,
             consolidated |-> <<f>>] : ds \in {<< >>, <<f>>}} :
           f \in Fragments}
    \cup
    {[key |-> <<"J">>, display_name |-> <<"J">>, descriptions |-> ds,
      consolidated |-> <<NoText>>] :
         ds \in {d \in FragmentLists : Len(d) < MaxFragments}
                \cup {<<NoText>> \o d : d \in {e \in FragmentLists :
                                                 Len(e) < MaxFragments}}}

InitSelect ==
    /\ NoRun
    /\ \E e \in EntityShapes, etype \in {"character", "location"} :
          fn = [op |-> "select", etype |-> etype, entity |-> e,
                done |-> FALSE, items |-> << >>]

Select ==
    /\ fn.op = "select"
    /\ ~fn.done
    /\ fn' = [fn EXCEPT
                !.done = TRUE,
                !.items = get_items_needing_consolidation(
                    IF fn.etype = "character"
                    THEN [NewMasterData(BookTitle, Author)
                             EXCEPT !.characters = <<fn.entity>>]
                    ELSE [NewMasterData(BookTitle, Author)
                             EXCEPT !.locations = <<fn.entity>>])]
    /\ UNCHANGED <<runVars, call>>

SpecSelect == InitSelect /\ [][Select]_vars

Selected == fn.items # << >>

CombinedLength == StrLen(Join(fn.entity.descriptions))

\* C20 as stated: an Entity is selected exactly when it has more than one
\* fragment and a combined length over 300, or a combined length over 500.
C20_SelectedByLength ==
    (fn.op = "select" /\ fn.done)
        => (Selected <=> \/ /\ Len(fn.entity.descriptions) > 1
                            /\ CombinedLength > 300
                         \/ CombinedLength > 500)

\* C20 as the code has it: an Entity is selected exactly when it holds no
\* consolidated description and more than one fragment, whatever the
\* combined length, and the call is given the joined fragments.
C20_SelectedByCount ==
    (fn.op = "select" /\ fn.done)
        => /\ Selected <=> /\ fn.entity.consolidated = << >>
                           /\ Len(fn.entity.descriptions) > 1
           /\ Selected =>
                 fn.items = << [etype |-> fn.etype, name |-> fn.entity.key,
                                desc |-> Join(fn.entity.descriptions)] >>

\* Two short fragments were selected.
C20_Witness ==
    /\ fn.op = "select" /\ fn.done
    /\ Len(fn.entity.descriptions) = 2
    /\ CombinedLength <= 300
    /\ Selected

\* A single fragment longer than 500 was passed over.
C20_LongSingleNotSelected ==
    /\ fn.op = "select" /\ fn.done
    /\ fn.entity.consolidated = << >>
    /\ Len(fn.entity.descriptions) = 1
    /\ CombinedLength > 500
    /\ ~Selected

(***************************************************************************)
(* merge_chunk of one mention into a Master State that holds one entity,   *)
(* in one of the shapes the merge, the consolidation and the restore leave *)
(* an entity in.  The mention names that entity, plainly or with an        *)
(* annotation, or another one.                                             *)
(***************************************************************************)
MentionNames == {<<"J">>, <<"J", " ", "(", "P", ")">>, <<"K">>}

MentionDescriptions == {<<"d">>, <<"maT">>, <<" ">>, NoText}

MasterWith(etype, entity) ==
    IF etype = "character"
    THEN [NewMasterData(BookTitle, Author) EXCEPT !.characters = <<entity>>]
    ELSE [NewMasterData(BookTitle, Author) EXCEPT !.locations = <<entity>>]

MentionOf(etype, name, description) ==
    [OutEmpty EXCEPT
       !.empty = FALSE,
       !.characters = IF etype = "character"
                      THEN << [name |-> name, description |-> description] >>
                      ELSE << >>,
       !.locations = IF etype = "location"
                     THEN << [name |-> name, description |-> description] >>
                     ELSE << >>]

InitReopen ==
    /\ NoRun
    /\ \E e \in EntityShapes, etype \in {"character", "location"},
          name \in MentionNames, description \in MentionDescriptions :
          fn = [op |-> "reopen", etype |-> etype, entity |-> e,
                name |-> name, description |-> description,
                done |-> FALSE, master |-> MasterWith(etype, e)]

MergeInto ==
    /\ fn.op = "reopen"
    /\ ~fn.done
    /\ fn' = [fn EXCEPT
                !.done = TRUE,
                !.master = merge_chunk(@, MentionOf(fn.etype, fn.name,
                                                    fn.description))]
    /\ UNCHANGED <<runVars, call>>

SpecReopen == InitReopen /\ [][MergeInto]_vars

\* The key the mention is filed under, and the entity of that key after the
\* merge.
MentionKey ==
    IF fn.etype = "character" THEN DedupKey(fn.name)
    ELSE normalize_location_name(Strip(fn.name))

MergedEntity ==
    LET d == EntitiesOfType(fn.master, fn.etype)
    IN  d[KeyIndex(d, MentionKey)]

\* The description the mention carries, as the merge appends it.
MentionD == T2S(Strip(fn.description))

Reopens ==
    /\ fn.op = "reopen" /\ fn.done
    /\ MentionKey = fn.entity.key
    /\ Truthy(fn.entity.consolidated)
    /\ MentionD # << >>

StartsNew ==
    /\ fn.op = "reopen" /\ fn.done
    /\ MentionKey # fn.entity.key

\* C22 as stated: a mention with description D of an Entity that holds a
\* consolidated description C leaves the Entity with no consolidated value
\* and with the fragment list [C, D]; an Entity with a new key holds D alone.
C22_ReopenedAsCD ==
    /\ Reopens =>
          /\ MergedEntity.consolidated = << >>
          /\ MergedEntity.descriptions
                 = <<fn.entity.consolidated[1], MentionD>>
    /\ StartsNew =>
          /\ MergedEntity.consolidated = << >>
          /\ MergedEntity.descriptions
                 = (IF MentionD = << >> THEN << >> ELSE <<MentionD>>)

\* C22 as the code has it: the consolidated value is cleared and C is put
\* in front of the fragments the Entity holds, D behind them: [C, D] for an
\* Entity consolidated in this run, [C, C, D] for an Entity restored from a
\* checkpoint, which holds C as its sole fragment too.
C22_ReopenedInFront ==
    /\ Reopens =>
          /\ MergedEntity.consolidated = << >>
          /\ MergedEntity.descriptions
                 = <<fn.entity.consolidated[1]>> \o fn.entity.descriptions
                       \o <<MentionD>>
          /\ fn.entity.descriptions
                 \in {<< >>, <<fn.entity.consolidated[1]>>}
          /\ MergedEntity.display_name = fn.entity.display_name
          /\ Len(EntitiesOfType(fn.master, fn.etype)) = 1
    /\ StartsNew =>
          /\ MergedEntity.consolidated = << >>
          /\ MergedEntity.descriptions
                 = (IF MentionD = << >> THEN << >> ELSE <<MentionD>>)
          /\ EntitiesOfType(fn.master, fn.etype)[1] = fn.entity

\* A restored character, mentioned again under an annotated name, has been
\* reopened.
C22_Witness ==
    /\ Reopens
    /\ fn.etype = "character"
    /\ fn.name # fn.entity.key
    /\ fn.entity.descriptions # << >>
    /\ Len(MergedEntity.descriptions) = 3

(***************************************************************************)
(* Themes: any sequence of merge_chunk and restore_master_from_checkpoint  *)
(* on one Master State, and the artifact to_output_json makes of it.  The  *)
(* theme lists name nine themes, the empty string and denylisted themes;   *)
(* a restored checkpoint may come from a version that did not filter.      *)
(***************************************************************************)
ThemeLists ==
    {<<"t1", "t2", "t3">>, <<"t4", "t5", "t6", "wenbenguodu">>,
     <<"t7", "t8", "t9", "">>, <<"xushijiegou", "t1", "t9">>}

RestoredThemes == {{"t1", "wenbentedian"}, {"t5", "t6", ""}}

ThemesOnly(themes) == [OutEmpty EXCEPT !.empty = FALSE, !.themes = themes]

CheckpointWith(themes) ==
    to_output_json(NewMasterData(BookTitle, Author), 34, themes)

InitThemes ==
    /\ NoRun
    /\ fn = [op |-> "themes", master |-> NewMasterData(BookTitle, Author),
             offered |-> {}, artifact |-> << >>]

MergeThemes ==
    /\ fn.op = "themes"
    /\ \E themes \in ThemeLists :
          fn' = [fn EXCEPT
                   !.master = merge_chunk(@, ThemesOnly(themes)),
                   !.offered = @ \cup SeqRange(themes)]
    /\ UNCHANGED <<runVars, call>>

RestoreThemes ==
    /\ fn.op = "themes"
    /\ \E themes \in RestoredThemes :
          fn' = [fn EXCEPT
                   !.master = restore_master_from_checkpoint(
                                  @, CheckpointWith(themes)),
                   !.offered = @ \cup themes]
    /\ UNCHANGED <<runVars, call>>

OutputThemes ==
    /\ fn.op = "themes"
    /\ \E slice \in ThemeSlices(fn.master.themes) :
          fn' = [fn EXCEPT
                   !.artifact = <<to_output_json(fn.master, 34, slice)>>]
    /\ UNCHANGED <<runVars, call>>

NextThemes == MergeThemes \/ RestoreThemes \/ OutputThemes

SpecThemes == InitThemes /\ [][NextThemes]_vars

\* C24: Master State never holds a denylisted theme, and no artifact lists
\* a denylisted theme or more than 8 themes.
C24_ThemesFilteredAndCapped ==
    fn.op = "themes"
        => /\ fn.master.themes \cap META_THEMES = {}
           /\ fn.artifact # << >>
                 => /\ fn.artifact[1].themes \cap META_THEMES = {}
                    /\ Cardinality(fn.artifact[1].themes) <= 8
                    /\ fn.artifact[1].themes \subseteq fn.offered

\* Denylisted themes were offered by a chunk and by a checkpoint, Master
\* State holds nine themes and the artifact lists eight of them.
C24_Witness ==
    /\ fn.op = "themes"
    /\ "wenbenguodu" \in fn.offered /\ "wenbentedian" \in fn.offered
    /\ Cardinality(fn.master.themes) = 9
    /\ fn.artifact # << >>
    /\ Cardinality(fn.artifact[1].themes) = 8

(***************************************************************************)
(* The response cache.  The pool runs the chunk workers side by side; each *)
(* builds its prompt from the title, the author, the end percentage and    *)
(* the chunk text, looks the prompt's hash up in the cache directory, and  *)
(* on a miss asks the service and saves what it answered under that hash.  *)
(* The service samples its answer (temperature above 0): the same prompt   *)
(* may be answered differently.  The hash is taken to be injective.        *)
(***************************************************************************)
MaxCacheWorkers == 2

CacheWorkers == 1..MaxCacheWorkers

\* What distinguishes the prompts of two chunks of one book.
ChunkPrompts == [end_pct : {1, 2}, chunk_text : {<<"x">>, <<"y">>}]

ServiceAnswers == {"r1", "r2"}

prompt_hash(prompt) == prompt

InitCache ==
    /\ NoRun
    /\ \E prompts \in [CacheWorkers -> ChunkPrompts] :
          fn = [op |-> "cache", prompts |-> prompts,
                at |-> [w \in CacheWorkers |-> "submitted"],
                answer |-> [w \in CacheWorkers |-> ""],
                written |-> [w \in CacheWorkers |-> ""],
                overlap |-> {},
                cache |-> [h \in {} |-> ""]]

\* The workers that are past their cache lookup and not yet back.
InFlight(at) == {w \in CacheWorkers : at[w] \in {"calling", "saving"}}

Overlaps(at) == {{v, w} : v, w \in InFlight(at)}

\* get_ai_cache at the head of the worker: a hit is returned at once.
CacheLookup(w) ==
    /\ fn.op = "cache"
    /\ fn.at[w] = "submitted"
    /\ LET at == [fn.at EXCEPT ![w] =
                     IF prompt_hash(fn.prompts[w]) \in DOMAIN fn.cache
                     THEN "returned" ELSE "calling"]
       IN  fn' = [fn EXCEPT !.at = at, !.overlap = @ \cup Overlaps(at)]
    /\ UNCHANGED <<runVars, call>>

\* call_ai_with_retry returns the service's answer.
CacheCall(w) ==
    /\ fn.op = "cache"
    /\ fn.at[w] = "calling"
    /\ \E r \in ServiceAnswers :
          fn' = [fn EXCEPT !.at[w] = "saving", !.answer[w] = r]
    /\ UNCHANGED <<runVars, call>>

\* save_ai_cache(prompt, chunk_data), and the worker returns.
save_ai_cache(w) ==
    /\ fn.op = "cache"
    /\ fn.at[w] = "saving"
    /\ fn' = [fn EXCEPT
                !.at[w] = "returned",
                !.written[w] = fn.answer[w],
                !.cache = [h \in DOMAIN @ \cup {prompt_hash(fn.prompts[w])} |->
                              IF h = prompt_hash(fn.prompts[w])
                              THEN fn.answer[w] ELSE @[h]]]
    /\ UNCHANGED <<runVars, call>>

NextCache ==
    \E w \in CacheWorkers : CacheLookup(w) \/ CacheCall(w) \/ save_ai_cache(w)

SpecCache == InitCache /\ [][NextCache]_vars

\* C25: two workers that ran at the same time and wrote the cache file of
\* the same request hash wrote the same content.
C25_SameEntrySameContent ==
    fn.op = "cache"
        => \A v, w \in CacheWorkers :
              (/\ {v, w} \in fn.overlap
               /\ fn.written[v] # "" /\ fn.written[w] # ""
               /\ prompt_hash(fn.prompts[v]) = prompt_hash(fn.prompts[w]))
                  => fn.written[v] = fn.written[w]

(***************************************************************************)
(* Character events and the timeline.  A percentage is kept in tenths (the *)
(* worker rounds to one decimal).  Master State is reduced to what the     *)
(* timeline reads: per character its key, display name and events.         *)
(***************************************************************************)
MaxEvents == 4

\* round(start_pct + (rel_pct / 100.0) * (end_pct - start_pct), 1), in
\* tenths; a relative_percent that is not a number counts as 0.
AbsolutePercent(start_pct, end_pct, relative_percent) ==
    LET rel_pct == CASE relative_percent = "50" -> 50
                     [] relative_percent = "150" -> 150
                     [] OTHER -> 0
        n == rel_pct * (end_pct - start_pct)
        whole == n \div 10
    IN  start_pct * 10
          + (IF n % 10 > 5 \/ (n % 10 = 5 /\ whole % 2 = 1)
             THEN whole + 1 ELSE whole)

\* re.sub(r"\s*[(（]\d+(?:\.\d+)?%[)）]$", "", raw_event): "pct" stands for
\* a parenthesised percentage.
CleanEvent(text) ==
    LET raw_event == T2S(text)
    IN  IF raw_event # << >> /\ raw_event[Len(raw_event)] = "pct"
        THEN LET rest == SubSeq(raw_event, 1, Len(raw_event) - 1)
             IN  IF RStrip(rest) = << >> THEN << >> ELSE RStrip(rest)
        ELSE raw_event

\* The worker's post-processing of one chunk result.
RECURSIVE WithAbsolutePercent(_, _, _)
WithAbsolutePercent(events, start_pct, end_pct) ==
    IF events = << >> THEN << >>
    ELSE << [event |-> Head(events).event,
             absolute_percent |->
                 AbsolutePercent(start_pct, end_pct,
                                 Head(events).relative_percent)] >>
         \o WithAbsolutePercent(Tail(events), start_pct, end_pct)

\* "Merge events" of _merge_characters for one character of a chunk.
RECURSIVE MergeEvents(_, _)
MergeEvents(stored, events) ==
    IF events = << >> THEN stored
    ELSE MergeEvents(
             IF Head(events).event # << >>
             THEN Append(stored, [event |-> CleanEvent(Head(events).event),
                                  percent |-> Head(events).absolute_percent])
             ELSE stored,
             Tail(events))

MergeCharacterEvents(d, char) ==
    LET key == DedupKey(char.name)
        d1 == IF KeyIndex(d, key) = 0
              THEN Append(d, [key |-> key, display_name |-> key,
                              events |-> << >>])
              ELSE d
    IN  IF key = << >> THEN d
        ELSE [d1 EXCEPT ![KeyIndex(d1, key)].events =
                            MergeEvents(@, char.events)]

\* A timeline left in the order the events were collected in.
SortByPercentNot(items) == items

\* all_events.sort(key=lambda x: x["percent"]): a stable sort.
RECURSIVE SortByPercent(_)
SortByPercent(items) ==
    IF items = << >> THEN << >>
    ELSE LET last == items[Len(items)]
             sorted == SortByPercent(SubSeq(items, 1, Len(items) - 1))
             before == SelectSeq(sorted, LAMBDA e : e.percent <= last.percent)
             after == SelectSeq(sorted, LAMBDA e : e.percent > last.percent)
         IN  before \o <<last>> \o after

\* The events of every character, named, in dictionary order.
RECURSIVE AllEvents(_)
AllEvents(d) ==
    IF d = << >> THEN << >>
    ELSE LET data == Head(d)
             named == [k \in 1..Len(data.events) |->
                          [event |-> data.display_name
                                         \o Strip(data.events[k].event),
                           percent |-> data.events[k].percent,
                           blank |-> Strip(data.events[k].event) = << >>]]
         IN  SelectSeq(named, LAMBDA e : ~e.blank) \o AllEvents(Tail(d))

\* The "Timeline" part of to_output_json.
Timeline(d) ==
    LET all_events == SortByPercent(AllEvents(d))
    IN  [i \in 1..Len(all_events) |->
            [sequence |-> i, event |-> all_events[i].event,
             percent |-> all_events[i].percent]]

\* Chunk results: the chunk's percentage window and one character with one
\* event, whose relative_percent is as the service wrote it (beyond 100,
\* or not a number) and whose text may be blank or missing.
EventChunks ==
    {[start_pct |-> 0, end_pct |-> 34, name |-> <<"J">>,
      event |-> <<"e">>, relative_percent |-> "50"],
     [start_pct |-> 0, end_pct |-> 34, name |-> <<"K">>,
      event |-> <<"f", " ", "pct">>, relative_percent |-> "150"],
     [start_pct |-> 33, end_pct |-> 100, name |-> <<"J", "tai", "tai">>,
      event |-> <<"e">>, relative_percent |-> "0"],
     [start_pct |-> 33, end_pct |-> 100, name |-> <<"K">>,
      event |-> <<" ">>, relative_percent |-> "50"],
     [start_pct |-> 33, end_pct |-> 100, name |-> <<"K">>,
      event |-> <<"e">>, relative_percent |-> "x"],
     [start_pct |-> 0, end_pct |-> 34, name |-> <<"J">>,
      event |-> << >>, relative_percent |-> "0"]}

InitTimeline ==
    /\ NoRun
    /\ fn = [op |-> "timeline", characters |-> << >>, merged |-> << >>,
             timeline |-> << >>, written |-> FALSE]

MergeChunkEvents ==
    /\ fn.op = "timeline"
    /\ Len(fn.merged) < MaxEvents
    /\ \E c \in EventChunks :
          LET char == [name |-> c.name,
                       events |-> WithAbsolutePercent(
                                      << [event |-> c.event,
                                          relative_percent |->
                                              c.relative_percent] >>,
                                      c.start_pct, c.end_pct)]
          IN  fn' = [fn EXCEPT
                       !.characters = MergeCharacterEvents(@, char),
                       !.merged = Append(@, char.events[1])]
    /\ UNCHANGED <<runVars, call>>

OutputTimeline ==
    /\ fn.op = "timeline"
    /\ fn' = [fn EXCEPT !.timeline = Timeline(fn.characters),
                        !.written = TRUE]
    /\ UNCHANGED <<runVars, call>>

NextTimeline == MergeChunkEvents \/ OutputTimeline

SpecTimeline == InitTimeline /\ [][NextTimeline]_vars

\* C26: in every artifact the timeline's sequence numbers are 1..n in
\* order and the percent never decreases along them.
C26_TimelineNumberedAndSorted ==
    (fn.op = "timeline" /\ fn.written)
        => /\ \A i \in 1..Len(fn.timeline) : fn.timeline[i].sequence = i
           /\ \A i \in 1..Len(fn.timeline) - 1 :
                 fn.timeline[i].percent <= fn.timeline[i + 1].percent

\* The artifact's timeline holds three events of two characters that were
\* merged in another order than that of their percentages, and an event
\* without text was left out.
C26_Witness ==
    /\ fn.op = "timeline" /\ fn.written
    /\ Len(fn.timeline) = 3
    /\ Len(fn.characters) = 2
    /\ Len(fn.merged) = 4
    /\ \E i, j \in 1..Len(fn.merged) :
          /\ i < j
          /\ fn.merged[i].event \notin {<< >>, <<" ">>}
          /\ fn.merged[j].event \notin {<< >>, <<" ">>}
          /\ fn.merged[i].absolute_percent > fn.merged[j].absolute_percent
    /\ fn.timeline = Timeline(fn.characters)

(***************************************************************************)
(* The web monitor's shared progress state.  An argument or a field that   *)
(* is None is << >>, any other value v is <<v>>; datetime.now() is the     *)
(* number of the call.                                                     *)
(***************************************************************************)
MaxUpdates == 3

None == << >>

PlainFields ==
    {"current_book", "progress_pct", "current_chunk", "total_chunks",
     "current_operation", "error_message", "stats"}

progress_state ==
    [status |-> <<"idle">>, current_book |-> <<"">>, progress_pct |-> <<"0">>,
     current_chunk |-> <<"0">>, total_chunks |-> <<"0">>,
     current_operation |-> <<"">>, start_time |-> None, end_time |-> None,
     error_message |-> <<"">>, stats |-> <<"{}">>,
     ai_retry_count |-> <<0>>, ai_success_count |-> <<0>>]

\* The status block of update_progress_state, restarting the clock and the
\* counters at every "running".
StatusUpdateRestarting(state, status, now) ==
    IF status = None THEN state
    ELSE LET s1 == [state EXCEPT !.status = status]
         IN  IF status = <<"running">>
             THEN [s1 EXCEPT !.start_time = <<now>>,
                             !.ai_retry_count = <<0>>,
                             !.ai_success_count = <<0>>]
             ELSE IF status[1] \in {"completed", "error", "terminated"}
             THEN [s1 EXCEPT !.end_time = <<now>>]
             ELSE s1

\* "if status is not None: ..."
StatusUpdate(state, status, now) ==
    IF status = None THEN state
    ELSE LET s1 == [state EXCEPT !.status = status]
         IN  IF status = <<"running">> /\ state.start_time = None
             THEN [s1 EXCEPT !.start_time = <<now>>,
                             !.ai_retry_count = <<0>>,
                             !.ai_success_count = <<0>>]
             ELSE IF status[1] \in {"completed", "error", "terminated"}
             THEN [s1 EXCEPT !.end_time = <<now>>]
             ELSE s1

\* update_progress_state(**args) at time now.
update_progress_state(state, args, now) ==
    LET s1 == StatusUpdate(state, args.status, now)
    IN  [f \in DOMAIN s1 |->
            IF f \in PlainFields /\ args[f] # None THEN args[f] ELSE s1[f]]

\* The calls: any status or none, with no field, one field, every field, or
\* the fields the simulation passes at the start, per chunk and at the end.
FieldChoices ==
    {{}, PlainFields, {"stats"}, {"error_message"},
     {"current_book", "progress_pct", "current_chunk", "total_chunks",
      "current_operation"},
     {"progress_pct", "current_chunk", "current_operation", "stats"},
     {"progress_pct", "current_operation"}}

Statuses == {None, <<"running">>, <<"completed">>, <<"error">>,
             <<"terminated">>}

ArgsOf(status, fields) ==
    [f \in PlainFields \cup {"status"} |->
        IF f = "status" THEN status
        ELSE IF f \in fields THEN <<"new">> ELSE None]

InitProgress ==
    /\ NoRun
    /\ fn = [op |-> "progress", state |-> progress_state, calls |-> 0,
             before |-> progress_state, args |-> ArgsOf(None, {}),
             last |-> "none"]

UpdateProgressState ==
    /\ fn.op = "progress"
    /\ fn.calls < MaxUpdates
    /\ \E status \in Statuses, fields \in FieldChoices :
          fn' = [fn EXCEPT
                   !.calls = @ + 1,
                   !.before = fn.state,
                   !.args = ArgsOf(status, fields),
                   !.last = "update",
                   !.state = update_progress_state(
                                 @, ArgsOf(status, fields), fn.calls + 1)]
    /\ UNCHANGED <<runVars, call>>

\* increment_ai_retry_count and increment_ai_success_count.
IncrementCount ==
    /\ fn.op = "progress"
    /\ fn.calls < MaxUpdates
    /\ \E counter \in {"ai_retry_count", "ai_success_count"} :
          fn' = [fn EXCEPT
                   !.calls = @ + 1,
                   !.before = fn.state,
                   !.args = ArgsOf(None, {}),
                   !.last = "increment",
                   !.state = [@ EXCEPT ![counter] = <<@[1] + 1>>]]
    /\ UNCHANGED <<runVars, call>>

NextProgress == UpdateProgressState \/ IncrementCount

SpecProgress == InitProgress /\ [][NextProgress]_vars

Updated == fn.op = "progress" /\ fn.last = "update"

FirstRunning == fn.args.status = <<"running">> /\ fn.before.start_time = None

Ending ==
    /\ fn.args.status # None
    /\ fn.args.status[1] \in {"completed", "error", "terminated"}

\* C27: update_progress_state gives every field passed with a value that
\* value and leaves every other field as it was, except that an ending
\* status also sets end_time and the first "running" sets start_time and
\* zeroes both AI counters.
C27_UpdatesExactlyPassedFields ==
    Updated =>
       /\ \A f \in PlainFields \cup {"status"} :
             fn.state[f] = (IF fn.args[f] # None THEN fn.args[f]
                            ELSE fn.before[f])
       /\ fn.state.end_time
             = (IF Ending THEN <<fn.calls>> ELSE fn.before.end_time)
       /\ fn.state.start_time
             = (IF FirstRunning THEN <<fn.calls>> ELSE fn.before.start_time)
       /\ \A c \in {"ai_retry_count", "ai_success_count"} :
             fn.state[c] = (IF FirstRunning THEN <<0>> ELSE fn.before[c])

\* A second "running", after an AI call was counted, changed the fields
\* passed with it and kept the start time and the counters.
C27_Witness ==
    /\ Updated
    /\ fn.args.status = <<"running">>
    /\ fn.before.start_time # None
    /\ fn.state.ai_success_count # <<0>> \/ fn.state.ai_retry_count # <<0>>
    /\ fn.args.progress_pct # None /\ fn.args.stats = None

(***************************************************************************)
(* build_chunks on a section longer than the chunk limit, alone or after a *)
(* short section.  The long text is a run of letters with up to two line   *)
(* breaks anywhere, long enough to be split in three.                      *)
(***************************************************************************)
MaxSplitLen == 30

LongTexts ==
    {[p \in 1..n |-> IF p \in {i, j} THEN "\n"
                     ELSE Letters[(p % Len(Letters)) + 1]] :
        n \in (MAX_CHUNK_SIZE + 1)..MaxSplitLen,
        i \in 0..MaxSplitLen, j \in 0..MaxSplitLen}

InitSplit ==
    /\ NoRun
    /\ \E text \in LongTexts :
       \E chapters \in {<<Section(text)>>,
                        <<Section(<<"a", "b">>), Section(text)>>} :
          fn = [op |-> "build_chunks", chapters |-> chapters,
                total_len |-> SumLen(chapters), done |-> FALSE,
                chunks |-> << >>]

SpecSplit == InitSplit /\ [][BuildChunks]_vars

\* The long section, where it starts in the book, and its segments: the
\* chunks that end beyond that start.
LongSection == fn.chapters[Len(fn.chapters)]

LongStart == fn.total_len - Len(LongSection.text)

SegmentChunks == {k \in 1..Len(fn.chunks) : fn.chunks[k].end_pos > LongStart}

\* Where segment k starts and ends within the section (from 0).
SegStart(k) == IF k = 1 THEN 0 ELSE fn.chunks[k - 1].end_pos - LongStart

SegStop(k) == fn.chunks[k].end_pos - LongStart

\* The line breaks of the look-back window before the size limit of a
\* segment that starts at start.
WindowBreaks(start) ==
    {p \in (start + MAX_CHUNK_SIZE - LOOKBACK)..(start + MAX_CHUNK_SIZE - 1) :
        p < Len(LongSection.text) /\ LongSection.text[p + 1] = "\n"}

\* C28: the segments of a section longer than the chunk limit are
\* non-empty, contiguous and in order and cover the section exactly once;
\* a non-final segment ends right after the last line break of the
\* look-back window before the size limit, or at the size limit when the
\* window holds none; the first segment carries the section's title and
\* every further one the title with its continuation index; each payload
\* is the header line and the segment's text.
C28_SplitAtLastLineBreak ==
    (Built /\ Len(LongSection.text) > MAX_CHUNK_SIZE) =>
       /\ Cardinality(SegmentChunks) >= 2
       /\ SegStop(Len(fn.chunks)) = Len(LongSection.text)
       /\ \A k \in SegmentChunks :
             LET n == k - SetMin(SegmentChunks)
                 tag == IF n = 0 THEN << >>
                        ELSE <<"fw(", "xu", Digits[n + 1], "fw)">>
             IN  /\ SegStart(k) < SegStop(k)
                 /\ SegStop(k) - SegStart(k) <= MAX_CHUNK_SIZE
                 /\ k < Len(fn.chunks) =>
                       SegStop(k) = IF WindowBreaks(SegStart(k)) # {}
                                    THEN SetMax(WindowBreaks(SegStart(k))) + 1
                                    ELSE SegStart(k) + MAX_CHUNK_SIZE
                 /\ fn.chunks[k].titles = <<LongSection.title \o tag>>
                 /\ fn.chunks[k].text
                       = Strip(<<"lb">> \o LongSection.title \o tag
                               \o <<"rb", "\n">>
                               \o SubSeq(LongSection.text, SegStart(k) + 1,
                                         SegStop(k)))

\* A section after a short one was split in three, its first segment at
\* the later of two line breaks of the window.
C28_Witness ==
    /\ Built
    /\ Len(fn.chapters) = 2
    /\ Cardinality(SegmentChunks) = 3
    /\ Cardinality(WindowBreaks(0)) = 2
    /\ fn.chunks[3].titles = <<<<"t", "fw(", "xu", "1", "fw)">>>>

(***************************************************************************)
(* One consolidation pass on its own: Master State holds two characters    *)
(* and a location, each with one fragment or more, and a summary of no,    *)
(* one or two fragments; the results of the consolidation workers are      *)
(* applied as the workers complete, and the summary is seen to last.       *)
(***************************************************************************)
PassFragments == {<<<<"c">>>>, <<<<"c">>, <<"d">>>>, <<<<"a300">>, <<"b200">>>>}

PassSummaries ==
    {<< >>, <<<<"s">>>>, <<<<"S1600">>>>, <<<<"s">>, <<"t">>>>,
     <<<<"S1600">>, <<"s">>>>}

Unconsolidated(key, descriptions) ==
    [key |-> key, display_name |-> key, descriptions |-> descriptions,
     consolidated |-> << >>]

InitPass ==
    /\ NoRun
    /\ \E dj \in PassFragments, dk \in PassFragments, dm \in PassFragments,
          summary_parts \in PassSummaries, kind \in DistillKinds :
          LET m == [NewMasterData(BookTitle, Author) EXCEPT
                      !.characters = <<Unconsolidated(<<"J">>, dj),
                                       Unconsolidated(<<"K">>, dk)>>,
                      !.locations = <<Unconsolidated(<<"M">>, dm)>>,
                      !.summary_parts = summary_parts]
          IN  fn = [op |-> "pass", kind |-> kind, start |-> m, master |-> m,
                    pending |-> SeqRange(get_items_needing_consolidation(m)),
                    order |-> << >>, finished |-> FALSE,
                    summary_called |-> FALSE]

\* "for future in concurrent.futures.as_completed(futures)": the next
\* result is that of any worker still out.
ApplyResult ==
    /\ fn.op = "pass"
    /\ \E item \in fn.pending :
          fn' = [fn EXCEPT
                   !.master = apply_consolidation(@, item.etype, item.name,
                                  consolidate_description_with_ai(
                                      fn.kind, item.etype, item.name,
                                      item.desc)),
                   !.pending = @ \ {item},
                   !.order = Append(@, item)]
    /\ UNCHANGED <<runVars, call>>

\* The end of consolidate_pending_items: every result is applied, and the
\* summary is consolidated if it needs it.
FinishPass ==
    /\ fn.op = "pass"
    /\ fn.pending = {}
    /\ ~fn.finished
    /\ fn' = [fn EXCEPT
                !.finished = TRUE,
                !.summary_called = needs_summary_consolidation(fn.master),
                !.master = IF needs_summary_consolidation(@)
                           THEN consolidate_summary(@, fn.kind) ELSE @]
    /\ UNCHANGED <<runVars, call>>

SpecPass == InitPass /\ [][ApplyResult \/ FinishPass]_vars

\* C29: once every result of the pass is applied, Master State is what
\* applying them in the order of submission gives, whatever order the
\* workers completed in.
C29_AnyCompletionOrder ==
    (fn.op = "pass" /\ fn.pending = {})
        => IF fn.finished
           THEN fn.master = consolidate_pending_items(fn.start, fn.kind)
           ELSE fn.master = ApplyAll(fn.start,
                                     get_items_needing_consolidation(fn.start),
                                     fn.kind)

\* Three results were applied, the location's first and the second
\* character's before the first's.
C29_Witness ==
    /\ fn.op = "pass" /\ fn.pending = {}
    /\ Len(fn.order) = 3
    /\ fn.order[1].etype = "location"
    /\ fn.order[2].name = <<"K">>
    /\ fn.master # fn.start

\* The pass is over.
PassFinished == fn.op = "pass" /\ fn.finished

\* The summary the pass started with has more than one fragment, or a
\* single fragment longer than the ceiling.
SummaryTriggered ==
    \/ Len(fn.start.summary_parts) > 1
    \/ /\ Len(fn.start.summary_parts) = 1
       /\ StrLen(fn.start.summary_parts[1]) > 1500

\* C30: after a consolidation pass the summary has at most one fragment,
\* and so has the artifact written from it; the summary call is made
\* exactly when the summary has more than one fragment or a single fragment
\* longer than 1500 characters, and it replaces all fragments by the one
\* text it returns.
C30_SummaryOneFragment ==
    PassFinished =>
       /\ Len(fn.master.summary_parts) <= 1
       /\ fn.summary_called <=> SummaryTriggered
       /\ fn.master.summary_parts
             = (IF SummaryTriggered
                THEN <<Distilled(fn.kind, Join(fn.start.summary_parts))>>
                ELSE fn.start.summary_parts)
       /\ to_output_json(fn.master, 34, {}).summary
             = (IF fn.master.summary_parts = << >> THEN << >>
                ELSE fn.master.summary_parts[1])

\* A pass that also consolidated entities made the summary call for a
\* single fragment longer than the ceiling.
C30_Witness ==
    /\ PassFinished
    /\ fn.order # << >>
    /\ fn.start.summary_parts = <<<<"S1600">>>>
    /\ fn.summary_called
    /\ fn.kind = "head"
    /\ fn.master.summary_parts = <<<<"S1600">>>>

\* The description the artifact written after the pass gives the entity of
\* this type and key.
WrittenDescription(etype, key) ==
    LET data == to_output_json(fn.master, 34, {})
        items == IF etype = "character" THEN data.characters
                 ELSE data.locations
    IN  {items[k].description : k \in {j \in 1..Len(items) :
                                          items[j].name = key}}

\* C35: an Entity whose joined fragment text was not empty when its
\* consolidation result was applied has a non-empty description in the
\* checkpoint written after the pass, whatever the distillation returned.
C35_DescriptionNeverErased ==
    PassFinished =>
        \A item \in SeqRange(get_items_needing_consolidation(fn.start)) :
            item.desc # << >>
               => /\ WrittenDescription(item.etype, item.name) # {}
                  /\ << >> \notin WrittenDescription(item.etype, item.name)

(***************************************************************************)
(* A resumed run on its own: a checkpoint that holds one entity is         *)
(* restored, a chunk that mentions an entity is merged, and the            *)
(* consolidation pass that follows the merge is made.                      *)
(***************************************************************************)
StoredNames == {<<"J">>, <<"J", " ", "(", "P", ")">>}

StoredDescriptions == {<<"c">>, <<"a300">>, NoText}

\* The checkpoint artifact: one entity under its display name.
StoredCheckpoint(etype, name, description) ==
    [CheckpointWith({}) EXCEPT
       !.characters = IF etype = "character"
                      THEN << [name |-> name, description |-> description] >>
                      ELSE << >>,
       !.locations = IF etype = "location"
                     THEN << [name |-> name, description |-> description] >>
                     ELSE << >>]

InitResume ==
    /\ NoRun
    /\ \E etype \in {"character", "location"}, stored_name \in StoredNames,
          stored \in StoredDescriptions, name \in MentionNames,
          description \in MentionDescriptions, kind \in DistillKinds :
          fn = [op |-> "resume", etype |-> etype,
                stored_name |-> stored_name, stored |-> stored,
                name |-> name, description |-> description, kind |-> kind,
                step |-> "start", merged |-> NewMasterData(BookTitle, Author),
                master |-> NewMasterData(BookTitle, Author)]

\* _calculate_start_step: the checkpoint is restored into Master State.
RestoreCheckpoint ==
    /\ fn.op = "resume"
    /\ fn.step = "start"
    /\ fn' = [fn EXCEPT
                !.step = "restored",
                !.master = restore_master_from_checkpoint(@,
                               StoredCheckpoint(fn.etype, fn.stored_name,
                                                fn.stored))]
    /\ UNCHANGED <<runVars, call>>

\* The merge loop merges the first chunk of the resumed run.
MergeAfterRestore ==
    /\ fn.op = "resume"
    /\ fn.step = "restored"
    /\ fn' = [fn EXCEPT
                !.step = "merged",
                !.merged = merge_chunk(fn.master,
                               MentionOf(fn.etype, fn.name, fn.description)),
                !.master = merge_chunk(@, MentionOf(fn.etype, fn.name,
                                                    fn.description))]
    /\ UNCHANGED <<runVars, call>>

\* consolidate_pending_items after the merge.
PassAfterMerge ==
    /\ fn.op = "resume"
    /\ fn.step = "merged"
    /\ fn' = [fn EXCEPT
                !.step = "passed",
                !.master = consolidate_pending_items(@, fn.kind)]
    /\ UNCHANGED <<runVars, call>>

NextResume == RestoreCheckpoint \/ MergeAfterRestore \/ PassAfterMerge

SpecResume == InitResume /\ [][NextResume]_vars

\* The key the checkpoint's entity is restored under.
StoredKey ==
    IF fn.etype = "character" THEN normalize_for_dedup(Strip(fn.stored_name))
    ELSE normalize_location_name(Strip(fn.stored_name))

\* The restored entity as the merge left it.
EntityAfterMerge ==
    LET d == EntitiesOfType(fn.merged, fn.etype)
    IN  d[KeyIndex(d, StoredKey)]

\* The chunk merged after the restore mentions the restored entity, with a
\* description.
RestoredMentioned ==
    /\ fn.op = "resume"
    /\ fn.step \in {"merged", "passed"}
    /\ MentionKey = StoredKey
    /\ MentionD # << >>

\* The text the consolidation pass sends for the restored entity, if any.
TextsSent ==
    {item.desc : item \in {i \in SeqRange(get_items_needing_consolidation(
                                              fn.merged)) :
                              i.name = StoredKey /\ i.etype = fn.etype}}

\* C33 as stated: a restored Entity with stored description C that is
\* mentioned with description D holds the fragment list [C, D].
C33_RestoredOnce ==
    RestoredMentioned =>
        EntityAfterMerge.descriptions = <<fn.stored, MentionD>>

\* C33 as the code has it: a restored Entity whose stored description C is
\* not empty holds [C, C, D] after the mention and the text C C D is sent
\* to the consolidation pass; when C is the empty string it holds [C, D],
\* keeps the empty consolidated value and no text is sent for it.
C33_RestoredTwice ==
    RestoredMentioned =>
        IF fn.stored # << >>
        THEN /\ EntityAfterMerge.descriptions
                    = <<fn.stored, fn.stored, MentionD>>
             /\ EntityAfterMerge.consolidated = << >>
             /\ TextsSent = {Join(<<fn.stored, fn.stored, MentionD>>)}
        ELSE /\ EntityAfterMerge.descriptions = <<fn.stored, MentionD>>
             /\ EntityAfterMerge.consolidated = <<fn.stored>>
             /\ TextsSent = {}

\* A location restored with a description was mentioned again and the pass
\* has been made.
C33_Witness ==
    /\ RestoredMentioned
    /\ fn.step = "passed"
    /\ fn.etype = "location"
    /\ fn.stored = <<"a300">>
    /\ Len(EntityAfterMerge.descriptions) = 3

\* C34: every Entity that holds two fragments or more after the merge is
\* picked up by get_items_needing_consolidation, and after the
\* consolidation pass no Entity holds more than one fragment.
C34_NoFragmentsLeft ==
    /\ (fn.op = "resume" /\ fn.step \in {"merged", "passed"}) =>
          \A etype \in {"character", "location"} :
             \A k \in 1..Len(EntitiesOfType(fn.merged, etype)) :
                Len(EntitiesOfType(fn.merged, etype)[k].descriptions) >= 2
                   => \E item \in SeqRange(get_items_needing_consolidation(
                                               fn.merged)) :
                         /\ item.etype = etype
                         /\ item.name = EntitiesOfType(fn.merged, etype)[k].key
    /\ (fn.op = "resume" /\ fn.step = "passed") =>
          \A k \in 1..Len(Entities(fn.master)) :
             Len(Entities(fn.master)[k].descriptions) <= 1

(***************************************************************************)
(* The web monitor's state under threads.  Every function that changes the *)
(* progress state or the log buffer does so inside "with _state_lock"; a   *)
(* thread is at one statement of one call.  "x += 1" on a dict entry is a  *)
(* load and a store.  The buffer's limit (100 in the source) is scaled     *)
(* down to MaxLogEntries.                                                  *)
(***************************************************************************)
MaxThreads == 2
MaxCalls == 3
MaxLogEntries == 2

MAX_LOG_ENTRIES == MaxLogEntries

Threads == 1..MaxThreads

Counters == {"ai_retry_count", "ai_success_count"}

StatusCalls == {"running", "completed"}

IdleThread == [pc |-> "idle", call |-> "none", tmp |-> 0]

\* A lock that any thread can take at any time.
LockNeverHeld(owner) == TRUE

\* threading.Lock: acquire blocks while another thread holds the lock.
LockFree(owner) == owner = 0

\* A trim that drops the entry just added.
EvictNewest(buffer) == SubSeq(buffer, 1, Len(buffer) - 1)

\* log_buffer.pop(0)
EvictOldest(buffer) == Tail(buffer)

InitMonitor ==
    /\ NoRun
    /\ fn = [op |-> "monitor", state |-> progress_state, log_buffer |-> << >>,
             owner |-> 0, thread |-> [t \in Threads |-> IdleThread],
             calls |-> 0,
             left |-> [c \in Counters |-> 0], added |-> << >>]

\* A thread calls increment_ai_retry_count, increment_ai_success_count,
\* update_progress_state(status=...) or add_log_entry; the log entry is
\* built before the lock is taken.
CallStart(t) ==
    /\ fn.op = "monitor"
    /\ fn.thread[t].pc = "idle"
    /\ fn.calls < MaxCalls
    /\ \E c \in Counters \cup StatusCalls \cup {"log"} :
          fn' = [fn EXCEPT
                   !.calls = @ + 1,
                   !.thread[t] = [pc |-> "acquire", call |-> c,
                                  tmp |-> fn.calls + 1]]
    /\ UNCHANGED <<runVars, call>>

\* "with _state_lock:" is entered.
Acquire(t) ==
    /\ fn.op = "monitor"
    /\ fn.thread[t].pc = "acquire"
    /\ LockFree(fn.owner)
    /\ fn' = [fn EXCEPT
                !.owner = t,
                !.thread[t].pc =
                    CASE fn.thread[t].call \in Counters -> "load"
                      [] fn.thread[t].call = "log" -> "append"
                      [] OTHER -> "update"]
    /\ UNCHANGED <<runVars, call>>

\* progress_state[counter] += 1: the value is read.
Load(t) ==
    /\ fn.op = "monitor"
    /\ fn.thread[t].pc = "load"
    /\ fn' = [fn EXCEPT
                !.thread[t].tmp = fn.state[fn.thread[t].call][1],
                !.thread[t].pc = "store"]
    /\ UNCHANGED <<runVars, call>>

\* progress_state[counter] += 1: the value read, plus one, is written.
Store(t) ==
    /\ fn.op = "monitor"
    /\ fn.thread[t].pc = "store"
    /\ fn' = [fn EXCEPT
                !.state[fn.thread[t].call] = <<fn.thread[t].tmp + 1>>,
                !.thread[t].pc = "release"]
    /\ UNCHANGED <<runVars, call>>

\* The body of update_progress_state; a first "running" resets the
\* counters.
LockedUpdate(t) ==
    /\ fn.op = "monitor"
    /\ fn.thread[t].pc = "update"
    /\ fn' = [fn EXCEPT
                !.state = update_progress_state(
                              @, ArgsOf(<<fn.thread[t].call>>, {}),
                              fn.thread[t].tmp),
                !.left = IF fn.thread[t].call = "running"
                            /\ fn.state.start_time = None
                         THEN [c \in Counters |-> 0] ELSE @,
                !.thread[t].pc = "release"]
    /\ UNCHANGED <<runVars, call>>

\* log_buffer.append(entry)
LogAppend(t) ==
    /\ fn.op = "monitor"
    /\ fn.thread[t].pc = "append"
    /\ fn' = [fn EXCEPT
                !.log_buffer = Append(@, fn.thread[t].tmp),
                !.added = Append(@, fn.thread[t].tmp),
                !.thread[t].pc = "trim"]
    /\ UNCHANGED <<runVars, call>>

\* "if len(log_buffer) > MAX_LOG_ENTRIES: log_buffer.pop(0)"
LogTrim(t) ==
    /\ fn.op = "monitor"
    /\ fn.thread[t].pc = "trim"
    /\ fn' = [fn EXCEPT
                !.log_buffer = IF Len(@) > MAX_LOG_ENTRIES
                               THEN EvictOldest(@) ELSE @,
                !.thread[t].pc = "release"]
    /\ UNCHANGED <<runVars, call>>

\* The with block is left; an increment has taken effect.
Release(t) ==
    /\ fn.op = "monitor"
    /\ fn.thread[t].pc = "release"
    /\ fn' = [fn EXCEPT
                !.owner = 0,
                !.left = IF fn.thread[t].call \in Counters
                         THEN [@ EXCEPT ![fn.thread[t].call] = @ + 1]
                         ELSE @,
                !.thread[t].pc = "broadcast"]
    /\ UNCHANGED <<runVars, call>>

\* The broadcast is scheduled (it reads the state and changes nothing) and
\* the call returns.
Broadcast(t) ==
    /\ fn.op = "monitor"
    /\ fn.thread[t].pc = "broadcast"
    /\ fn' = [fn EXCEPT !.thread[t] = IdleThread]
    /\ UNCHANGED <<runVars, call>>

NextMonitor ==
    \E t \in Threads :
       \/ CallStart(t)
       \/ Acquire(t)
       \/ Load(t)
       \/ Store(t)
       \/ LockedUpdate(t)
       \/ LogAppend(t)
       \/ LogTrim(t)
       \/ Release(t)
       \/ Broadcast(t)

SpecMonitor == InitMonitor /\ [][NextMonitor]_vars

\* The threads that have written a counter and not yet left the lock.
Storing(c) ==
    {t \in Threads : fn.thread[t].pc = "release" /\ fn.thread[t].call = c}

\* C37: whatever the interleaving of the threads, each counter is the
\* number of increments that have taken effect since the counters were
\* last reset: those whose call has left the lock and the one that has
\* written and still holds it.
C37_NoIncrementLost ==
    fn.op = "monitor" =>
        \A c \in Counters :
            /\ fn.state[c][1] = fn.left[c] + Cardinality(Storing(c))
            /\ Cardinality(Storing(c)) <= 1

\* A thread has read a counter that is not zero and holds the lock, while
\* another thread waits for the lock to increment the same counter.
C37_Witness ==
    /\ fn.op = "monitor"
    /\ \E t \in Threads, u \in Threads :
          /\ t # u
          /\ fn.thread[t].pc = "store" /\ fn.thread[u].pc = "acquire"
          /\ fn.thread[t].call = fn.thread[u].call
          /\ fn.thread[t].tmp >= 1

\* No thread is between the append and the trim of add_log_entry.
NoneTrimming == \A t \in Threads : fn.thread[t].pc # "trim"

\* The last n entries of a sequence.
LastEntries(seq, n) ==
    IF Len(seq) <= n THEN seq ELSE SubSeq(seq, Len(seq) - n + 1, Len(seq))

\* C38: after any calls of add_log_entry from any threads the log buffer
\* holds at most MAX_LOG_ENTRIES entries, and they are the entries added
\* last, in the order they were added.
C38_BufferHoldsLatest ==
    (fn.op = "monitor" /\ NoneTrimming) =>
        /\ Len(fn.log_buffer) <= MAX_LOG_ENTRIES
        /\ fn.log_buffer = LastEntries(fn.added, MAX_LOG_ENTRIES)

\* More entries were added than the buffer holds, the later ones by a
\* thread whose entry was built before and appended after another's.
C38_Witness ==
    /\ fn.op = "monitor"
    /\ NoneTrimming
    /\ Len(fn.added) > MAX_LOG_ENTRIES
    /\ Len(fn.log_buffer) = MAX_LOG_ENTRIES
    /\ \E k \in 1..(Len(fn.log_buffer) - 1) :
          fn.log_buffer[k] > fn.log_buffer[k + 1]

====
